---- MODULE Spec2Model ----
(***************************************************************************)
(* The sonification engine of process-thought (ThoughtAudio.tsx): pattern  *)
(* detection on text chunks, the intensity ladder, the pitch mapping, the  *)
(* axis mixer and the five-layer trigger engine, with the timers the       *)
(* engine registers and the asynchronous startAudio / replay handlers;     *)
(* and the API route that streams the thinking events with the page's run  *)
(* handler that reads them and drives the engine.                          *)
(*                                                                         *)
(* Conventions.  A text is a sequence of atoms: an atom is either a run of *)
(* word characters ("maybe", "recon", "7") or one non-word character       *)
(* (" ", ",", "(", "?", ...).  Two adjacent word atoms form one word.      *)
(* Numbers are scaled integers: intensity and gains in percent (0.9 is     *)
(* 90), MIDI notes and decibels in hundredths (48 is 4800).  A frequency   *)
(* is kept as [midi, ratio, semis]: the MIDI note it was derived from, the *)
(* factor applied to it ("1/4", "1", "5/2") and the semitone offset.       *)
(***************************************************************************)
EXTENDS Integers, Sequences, FiniteSets, TLC

VARIABLES
  backend,          \* "unloaded": Tone = null; "loaded": Tone set, instrument refs null; "ready"
  hasObserver,      \* whether the onActiveAxesChange prop was given
  mixerControls,    \* mixerControlsRef.current
  isPlaying,        \* isPlayingRef.current
  currentSentence,  \* currentSentenceRef.current
  recentText,       \* recentTextRef.current
  sessionRefs,      \* the session refs that only reset() writes
  noise,            \* textureNoiseRef / filterRef: state, volume, filter frequency
  timers,           \* pending setTimeout callbacks, in registration order
  starting,         \* startAudio() calls awaiting Tone.start()
  replays,          \* replay() calls in flight
  last,             \* the decisions of the chunk processed by the last step, if any
  emitted,          \* sound events produced by the last step
  notified,         \* onActiveAxesChange calls made by the last step
  lastCall,         \* the handler the last step ran
  nCalls,           \* number of external calls made so far
  server,           \* the API route's stream: position, upstream events left, events sent
  wire,             \* response bytes enqueued by the route and not yet read by the page
  page,             \* the page: isStreaming, the read loop's buffer and position
  canvas            \* ThoughtCanvas: lastDeltaTimeRef, deltaTimingsRef, the clock

vars == << backend, hasObserver, mixerControls, isPlaying, currentSentence,
           recentText, sessionRefs, noise, timers, starting, replays, last,
           emitted, notified, lastCall, nCalls, server, wire, page, canvas >>

\* the variables of the API route and of the page
stream == << server, wire, page >>

\* the variables of the audio engine (ThoughtAudio)
audio == << backend, hasObserver, mixerControls, isPlaying, currentSentence,
            recentText, sessionRefs, noise, timers, starting, replays, last,
            emitted, notified, lastCall, nCalls >>

----------------------------------------------------------------------------
(* Bounds *)

MaxCalls == 3         \* external calls in one behaviour of Spec
MaxFlags == 3         \* pattern categories present in one chunk of the layer inputs

----------------------------------------------------------------------------
(* Text *)

NonWordAtoms == {" ", "\n", "\t", ",", "(", ")", ".", "?", "'", "!"}

Digits == {"0", "1", "2", "3", "4", "5", "6", "7", "8", "9"}

IsWordAtom(a) == a \notin NonWordAtoms

\* the /i flag of the marker regexes: the lower-case form of the atoms that
\* carry capitals (the marker lists below are written in lower case)
Fold(a) ==
  CASE a = "I"       -> "i"
    [] a = "Well"    -> "well"
    [] a = "Maybe"   -> "maybe"
    [] a = "First"   -> "first"
    [] a = "Is"      -> "is"
    [] a = "BUT"     -> "but"
    [] a = "Clearly" -> "clearly"
    [] OTHER         -> a

WordAt(text, k) == k \in 1..Len(text) /\ IsWordAtom(text[k])

\* \b between atom k-1 and atom k (k = 1 is the start, Len+1 the end)
Boundary(text, k) == WordAt(text, k - 1) # WordAt(text, k)

FoldText(text) == [i \in 1..Len(text) |-> Fold(text[i])]

\* the literal m at position i of a folded text (markers are written folded)
MatchAt(text, m, i) ==
  /\ i + Len(m) - 1 <= Len(text)
  /\ \A j \in 1..Len(m) : text[i + j - 1] = m[j]

\* the positions where a word begins: every alternative of every marker
\* regex begins with a word character, so its leading \b holds there only
WordStarts(text) == { i \in 1..Len(text) : WordAt(text, i) /\ ~WordAt(text, i - 1) }

\* /\b(w1|w2|...|p1|p2|...)\b/i.test(text) on a folded text: the one-atom
\* alternatives are given as a set of words, the others as atom sequences
TestMarkers(markers, text, starts) ==
  \E i \in starts :
     \/ text[i] \in markers.words /\ Boundary(text, i + 1)
     \/ \E m \in markers.phrases :
          /\ MatchAt(text, m, i)
          /\ Boundary(text, i + Len(m))

DigitRun(text, i, j) ==
  /\ 1 <= i /\ i <= j /\ j <= Len(text)
  /\ \A k \in i..j : text[k] \in Digits

\* the alternatives  prefix \d+ suffix  of ENUMERATION_MARKERS, between \b
TestDigits(prefix, suffix, text, starts) ==
  \E i \in starts :
     /\ MatchAt(text, prefix, i)
     /\ \E j \in (i + Len(prefix))..Len(text) :
          /\ DigitRun(text, i + Len(prefix), j)
          /\ MatchAt(text, suffix, j + 1)
          /\ Boundary(text, j + 1 + Len(suffix))

UNCERTAINTY_MARKERS ==
  [ words |-> { "maybe", "might", "possibly", "perhaps", "could", "seems",
                "appears", "uncertain", "unsure", "probably", "likely" },
    phrases |-> { } ]

CERTAINTY_MARKERS ==
  [ words |-> { "clearly", "definitely", "must", "obviously", "certainly",
                "surely", "indeed", "undoubtedly", "always", "never" },
    phrases |-> { } ]

REVISION_MARKERS ==
  [ words |-> { "actually", "wait", "however", "but", "although", "though",
                "yet", "nevertheless", "nonetheless", "hmm", "rethink" },
    phrases |-> { <<"no", ",">>, <<"recon", "sider">> } ]

METACOGNITIVE_MARKERS ==
  [ words |-> { },
    phrases |-> { <<"i", " ", "think">>, <<"i", " ", "believe">>,
                  <<"i", "'", "m", " ", "not", " ", "sure">>,
                  <<"i", " ", "wonder">>, <<"let", " ", "me">>,
                  <<"i", " ", "need", " ", "to">>, <<"i", " ", "should">> } ]

\* without the alternatives  step \d+,  \d+\)  and  \d+\.  (TestEnumeration)
ENUMERATION_MARKERS ==
  [ words |-> { "first", "second", "third", "next", "then", "finally",
                "lastly", "initially", "subsequently" },
    phrases |-> { } ]

EMPHASIS_MARKERS ==
  [ words |-> { "really", "very", "extremely", "quite", "highly",
                "particularly", "especially", "significantly", "crucially",
                "absolutely" },
    phrases |-> { } ]

NEGATION_MARKERS ==
  [ words |-> { "not", "never", "no" },
    phrases |-> { <<"won", "'", "t">>, <<"can", "'", "t">>, <<"isn", "'", "t">>,
                  <<"aren", "'", "t">>, <<"wasn", "'", "t">>,
                  <<"weren", "'", "t">>, <<"don", "'", "t">>,
                  <<"doesn", "'", "t">>, <<"didn", "'", "t">> } ]

CAUSATION_MARKERS ==
  [ words |-> { "because", "therefore", "thus", "hence", "consequently", "so",
                "since" },
    phrases |-> { <<"as", " ", "a", " ", "result">>, <<"given", " ", "that">>,
                  <<"due", " ", "to">> } ]

HEDGING_MARKERS ==
  [ words |-> { "somewhat", "relatively", "fairly", "rather", "approximately" },
    phrases |-> { <<"sort", " ", "of">>, <<"kind", " ", "of">>,
                  <<"more", " ", "or", " ", "less">> } ]

COMPARISON_MARKERS ==
  [ words |-> { "similar", "different", "unlike", "whereas", "alternatively" },
    phrases |-> { <<"compared", " ", "to">>, <<"in", " ", "contrast">>,
                  <<"on", " ", "the", " ", "other", " ", "hand">> } ]

RESOLUTION_MARKERS ==
  [ words |-> { "ultimately", "overall", "final", "conclusion" },
    phrases |-> { <<"in", " ", "conclusion">>, <<"to", " ", "summarize">>,
                  <<"in", " ", "the", " ", "end">>, <<"in", " ", "summary">> } ]

\* QUESTION_MARKER = /\?/
TestQuestion(text) == \E i \in 1..Len(text) : text[i] = "?"

TestEnumeration(text, starts) ==
  \/ TestMarkers(ENUMERATION_MARKERS, text, starts)
  \/ TestDigits(<<"step", " ">>, << >>, text, starts)
  \/ TestDigits(<< >>, <<")">>, text, starts)
  \/ TestDigits(<< >>, <<".">>, text, starts)

Flags == { "hasUncertainty", "hasCertainty", "hasRevision", "hasQuestion",
           "hasEnumeration", "hasEmphasis", "hasNegation", "hasCausation",
           "hasHedging", "hasComparison", "hasResolution" }

\* the eleven tests of addDelta whose results are handed to triggerLayers
testAll(folded, starts) ==
  [ hasUncertainty |-> TestMarkers(UNCERTAINTY_MARKERS, folded, starts),
    hasCertainty   |-> TestMarkers(CERTAINTY_MARKERS, folded, starts),
    hasRevision    |-> TestMarkers(REVISION_MARKERS, folded, starts),
    hasQuestion    |-> TestQuestion(folded),
    hasEnumeration |-> TestEnumeration(folded, starts),
    hasEmphasis    |-> TestMarkers(EMPHASIS_MARKERS, folded, starts),
    hasNegation    |-> TestMarkers(NEGATION_MARKERS, folded, starts),
    hasCausation   |-> TestMarkers(CAUSATION_MARKERS, folded, starts),
    hasHedging     |-> TestMarkers(HEDGING_MARKERS, folded, starts),
    hasComparison  |-> TestMarkers(COMPARISON_MARKERS, folded, starts),
    hasResolution  |-> TestMarkers(RESOLUTION_MARKERS, folded, starts) ]

detectFolded(folded) ==
  CHOOSE p \in { testAll(folded, starts) : starts \in {WordStarts(folded)} } : TRUE

detectPatterns(text) ==
  CHOOSE p \in { detectFolded(folded) : folded \in {FoldText(text)} } : TRUE

\* the twelfth test, used by the intensity ladder only
hasMetacognition(text) ==
  \E folded \in {FoldText(text)} : \E starts \in {WordStarts(folded)} :
     TestMarkers(METACOGNITIVE_MARKERS, folded, starts)

----------------------------------------------------------------------------
(* Intensity and pitch *)

Min(a, b) == IF a <= b THEN a ELSE b

\* variant: certainty is tested before revision
ladderIntensityCertaintyFirst(p, meta) ==
  IF p.hasCertainty THEN 80
  ELSE IF p.hasRevision THEN 90
  ELSE IF p.hasResolution THEN 85
  ELSE IF p.hasUncertainty \/ meta \/ p.hasHedging THEN 70
  ELSE IF p.hasEnumeration THEN 65
  ELSE IF p.hasQuestion THEN 60
  ELSE IF p.hasCausation THEN 60
  ELSE 50

\* variant: the chain without the metacognition test
ladderIntensityOfFlags(p, meta) ==
  IF p.hasRevision THEN 90
  ELSE IF p.hasResolution THEN 85
  ELSE IF p.hasCertainty THEN 80
  ELSE IF p.hasUncertainty \/ p.hasHedging THEN 70
  ELSE IF p.hasEnumeration THEN 65
  ELSE IF p.hasQuestion THEN 60
  ELSE IF p.hasCausation THEN 60
  ELSE 50

\* variant: causation is tested before enumeration
ladderIntensityCausationFirst(p, meta) ==
  IF p.hasRevision THEN 90
  ELSE IF p.hasResolution THEN 85
  ELSE IF p.hasCertainty THEN 80
  ELSE IF p.hasUncertainty \/ meta \/ p.hasHedging THEN 70
  ELSE IF p.hasCausation THEN 60
  ELSE IF p.hasEnumeration THEN 65
  ELSE IF p.hasQuestion THEN 60
  ELSE 50

\* the if / else-if chain of addDelta, before the emphasis boost (percent)
ladderIntensity(p, meta) ==
  IF p.hasRevision THEN 90
  ELSE IF p.hasResolution THEN 85
  ELSE IF p.hasCertainty THEN 80
  ELSE IF p.hasUncertainty \/ meta \/ p.hasHedging THEN 70
  ELSE IF p.hasEnumeration THEN 65
  ELSE IF p.hasQuestion THEN 60
  ELSE IF p.hasCausation THEN 60
  ELSE 50

\* variant: the boosted value is not capped
calcIntensityUncapped(p, meta) ==
  IF p.hasEmphasis THEN ladderIntensity(p, meta) + 15
  ELSE ladderIntensity(p, meta)

calcIntensity(p, meta) ==
  IF p.hasEmphasis THEN Min(100, ladderIntensity(p, meta) + 15)
  ELSE ladderIntensity(p, meta)

RECURSIVE CountAtom(_, _)
\* (text.match(/a/g) || []).length
CountAtom(text, a) ==
  IF text = <<>> THEN 0
  ELSE (IF Head(text) = a THEN 1 ELSE 0) + CountAtom(Tail(text), a)

complexityOf(text) == CountAtom(text, ",") + CountAtom(text, "(")

baseMidi == 48
midiRange == 36

\* variant: the complexity adjustment is left out
calcMidiNoteOfIntensity(intensity, text) == baseMidi * 100 + intensity * midiRange

\* midiNote of addDelta, in hundredths of a semitone
calcMidiNote(intensity, text) ==
  LET note == baseMidi * 100 + intensity * midiRange
      complexity == complexityOf(text)
  IN  IF complexity > 0 THEN note + complexity * 2 * 100 ELSE note

----------------------------------------------------------------------------
(* Axis mixer *)

Axes == {"certainty", "reasoning", "revision", "resolution"}

DefaultAxis == [muted |-> FALSE, solo |-> FALSE, volume |-> 100]

DefaultMixer == [a \in Axes |-> DefaultAxis]

\* variant: a question does not mark the revision axis
getActiveAxesNoQuestion(p) ==
  [ certainty  |-> p.hasUncertainty \/ p.hasCertainty \/ p.hasHedging,
    reasoning  |-> p.hasCausation \/ p.hasEnumeration \/ p.hasComparison,
    revision   |-> p.hasRevision \/ p.hasNegation,
    resolution |-> p.hasResolution \/ p.hasEmphasis ]

getActiveAxes(p) ==
  [ certainty  |-> p.hasUncertainty \/ p.hasCertainty \/ p.hasHedging,
    reasoning  |-> p.hasCausation \/ p.hasEnumeration \/ p.hasComparison,
    revision   |-> p.hasRevision \/ p.hasNegation \/ p.hasQuestion,
    resolution |-> p.hasResolution \/ p.hasEmphasis ]

\* variant: solo is not consulted
getAxisGainMultiplierNoSolo(controls, axisName) ==
  LET axis == controls[axisName]
  IN  IF axis.muted THEN 0 ELSE axis.volume

\* variant: a soloed axis is audible whatever its mute flag
getAxisGainMultiplierSoloFirst(controls, axisName) ==
  LET axis == controls[axisName]
      anySolo == \E a \in DOMAIN controls : controls[a].solo
  IN  IF anySolo THEN (IF axis.solo THEN axis.volume ELSE 0)
      ELSE IF axis.muted THEN 0
      ELSE axis.volume

\* gain in percent
getAxisGainMultiplier(controls, axisName) ==
  LET axis == controls[axisName]
      anySolo == \E a \in DOMAIN controls : controls[a].solo
  IN  IF anySolo /\ ~axis.solo THEN 0
      ELSE IF axis.muted THEN 0
      ELSE axis.volume

----------------------------------------------------------------------------
(* Layer triggering *)

\* one triggerAttackRelease(freq, dur, undefined, Tone.dbToGain(db) * gain)
Note(layer, midi, ratio, semis, dur, db, gain) ==
  [ type  |-> "note", layer |-> layer,
    pitch |-> [midi |-> midi, ratio |-> ratio, semis |-> semis],
    dur   |-> dur,
    vol   |-> [db |-> db, gain |-> gain] ]

\* a call made at once (timer = FALSE) or handed to setTimeout(.., delay)
Direct(act) == [timer |-> FALSE, delay |-> 0, act |-> act]
Deferred(delay, act) == [timer |-> TRUE, delay |-> delay, act |-> act]

\* variant: each note waits its spacing after the note before it has waited
DeferredRunCumulative(layer, midi, ratio, offsets, spacing, dur, db, step, gain) ==
  [ i \in 1..Len(offsets) |->
      Deferred((((i - 1) * i) \div 2) * spacing,
               Note(layer, midi, ratio, offsets[i], dur, db - (i - 1) * step, gain)) ]

\* [semitones...].forEach((semitones, i) => setTimeout(note, i * spacing))
DeferredRun(layer, midi, ratio, offsets, spacing, dur, db, step, gain) ==
  [ i \in 1..Len(offsets) |->
      Deferred((i - 1) * spacing,
               Note(layer, midi, ratio, offsets[i], dur, db - (i - 1) * step, gain)) ]

\* variant: the bass note is played without consulting the axis gain
bassLayerUngated(p, intensity, midi, g) ==
  IF p.hasCausation \/ p.hasEnumeration \/ p.hasResolution
  THEN LET axisGain == IF p.hasCausation \/ p.hasEnumeration
                       THEN g.reasoning ELSE g.resolution
           bassVolume == -1800 + intensity * 5
       IN  << Direct(Note("bass", midi, "1/4", 0, "4n", bassVolume, axisGain)) >>
  ELSE << >>

bassLayer(p, intensity, midi, g) ==
  IF p.hasCausation \/ p.hasEnumeration \/ p.hasResolution
  THEN LET axisGain == IF p.hasCausation \/ p.hasEnumeration
                       THEN g.reasoning ELSE g.resolution
           bassVolume == -1800 + intensity * 5
       IN  IF axisGain > 0
           THEN << Direct(Note("bass", midi, "1/4", 0, "4n", bassVolume, axisGain)) >>
           ELSE << >>
  ELSE << >>

\* variant: the revision run is scheduled before its gain is looked at
midLayerRunUngated(p, intensity, midi, g) ==
  LET midVolume == -1200 + intensity * 8
  IN  IF p.hasRevision
      THEN DeferredRun("mid", midi, "1", <<0, -2, -4, -6, -8>>, 30, "32n",
                       midVolume, 100, g.revision)
      ELSE IF p.hasQuestion
      THEN IF g.revision > 0
           THEN DeferredRun("mid", midi, "1", <<0, 2, 4, 7, 9>>, 40, "16n",
                            midVolume, 100, g.revision)
           ELSE << >>
      ELSE IF p.hasCertainty
      THEN IF g.certainty > 0
           THEN DeferredRun("mid", midi, "1", <<0, 4, 7>>, 20, "8n",
                            midVolume, 300, g.certainty)
           ELSE << >>
      ELSE << Direct(Note("mid", midi, "1", 0, "8n", midVolume, 100)) >>

\* variant: the question branch is tested before the revision branch
midLayerQuestionFirst(p, intensity, midi, g) ==
  LET midVolume == -1200 + intensity * 8
  IN  IF p.hasQuestion
      THEN IF g.revision > 0
           THEN DeferredRun("mid", midi, "1", <<0, 2, 4, 7, 9>>, 40, "16n",
                            midVolume, 100, g.revision)
           ELSE << >>
      ELSE IF p.hasRevision
      THEN IF g.revision > 0
           THEN DeferredRun("mid", midi, "1", <<0, -2, -4, -6, -8>>, 30, "32n",
                            midVolume, 100, g.revision)
           ELSE << >>
      ELSE IF p.hasCertainty
      THEN IF g.certainty > 0
           THEN DeferredRun("mid", midi, "1", <<0, 4, 7>>, 20, "8n",
                            midVolume, 300, g.certainty)
           ELSE << >>
      ELSE << Direct(Note("mid", midi, "1", 0, "8n", midVolume, 100)) >>

\* variant: a branch whose gain is 0 falls through to the next flag
midLayerFallThrough(p, intensity, midi, g) ==
  LET midVolume == -1200 + intensity * 8
  IN  IF p.hasRevision /\ g.revision > 0
      THEN DeferredRun("mid", midi, "1", <<0, -2, -4, -6, -8>>, 30, "32n",
                       midVolume, 100, g.revision)
      ELSE IF p.hasQuestion /\ g.revision > 0
      THEN DeferredRun("mid", midi, "1", <<0, 2, 4, 7, 9>>, 40, "16n",
                       midVolume, 100, g.revision)
      ELSE IF p.hasCertainty /\ g.certainty > 0
      THEN DeferredRun("mid", midi, "1", <<0, 4, 7>>, 20, "8n",
                       midVolume, 300, g.certainty)
      ELSE IF p.hasRevision \/ p.hasQuestion \/ p.hasCertainty
      THEN << >>
      ELSE << Direct(Note("mid", midi, "1", 0, "8n", midVolume, 100)) >>

\* variant: the plain note is played with the certainty gain
midLayerPlainGated(p, intensity, midi, g) ==
  LET midVolume == -1200 + intensity * 8
  IN  IF p.hasRevision
      THEN IF g.revision > 0
           THEN DeferredRun("mid", midi, "1", <<0, -2, -4, -6, -8>>, 30, "32n",
                            midVolume, 100, g.revision)
           ELSE << >>
      ELSE IF p.hasQuestion
      THEN IF g.revision > 0
           THEN DeferredRun("mid", midi, "1", <<0, 2, 4, 7, 9>>, 40, "16n",
                            midVolume, 100, g.revision)
           ELSE << >>
      ELSE IF p.hasCertainty
      THEN IF g.certainty > 0
           THEN DeferredRun("mid", midi, "1", <<0, 4, 7>>, 20, "8n",
                            midVolume, 300, g.certainty)
           ELSE << >>
      ELSE IF g.certainty > 0
      THEN << Direct(Note("mid", midi, "1", 0, "8n", midVolume, g.certainty)) >>
      ELSE << >>

midLayer(p, intensity, midi, g) ==
  LET midVolume == -1200 + intensity * 8
  IN  IF p.hasRevision
      THEN IF g.revision > 0
           THEN DeferredRun("mid", midi, "1", <<0, -2, -4, -6, -8>>, 30, "32n",
                            midVolume, 100, g.revision)
           ELSE << >>
      ELSE IF p.hasQuestion
      THEN IF g.revision > 0
           THEN DeferredRun("mid", midi, "1", <<0, 2, 4, 7, 9>>, 40, "16n",
                            midVolume, 100, g.revision)
           ELSE << >>
      ELSE IF p.hasCertainty
      THEN IF g.certainty > 0
           THEN DeferredRun("mid", midi, "1", <<0, 4, 7>>, 20, "8n",
                            midVolume, 300, g.certainty)
           ELSE << >>
      ELSE << Direct(Note("mid", midi, "1", 0, "8n", midVolume, 100)) >>

\* variant: comparison is preferred to emphasis when choosing the axis
highLayerComparisonFirst(p, intensity, midi, g) ==
  IF p.hasEmphasis \/ p.hasComparison \/ p.hasHedging
  THEN LET axisGain == IF p.hasComparison THEN g.reasoning
                       ELSE IF p.hasEmphasis THEN g.resolution
                       ELSE g.certainty
           highVolume == -2200 + intensity * 6
       IN  IF axisGain > 0
           THEN IF p.hasEmphasis
                THEN DeferredRun("high", midi, "5/2", <<0, 5, 7, 12>>, 25, "32n",
                                 highVolume, 200, axisGain)
                ELSE << Direct(Note("high", midi, "5/2", 0, "16n", highVolume, axisGain)) >>
           ELSE << >>
  ELSE << >>

highLayer(p, intensity, midi, g) ==
  IF p.hasEmphasis \/ p.hasComparison \/ p.hasHedging
  THEN LET axisGain == IF p.hasEmphasis THEN g.resolution
                       ELSE IF p.hasComparison THEN g.reasoning
                       ELSE g.certainty
           highVolume == -2200 + intensity * 6
       IN  IF axisGain > 0
           THEN IF p.hasEmphasis
                THEN DeferredRun("high", midi, "5/2", <<0, 5, 7, 12>>, 25, "32n",
                                 highVolume, 200, axisGain)
                ELSE << Direct(Note("high", midi, "5/2", 0, "16n", highVolume, axisGain)) >>
           ELSE << >>
  ELSE << >>

padLayer(p, intensity, midi, g) ==
  IF p.hasUncertainty \/ p.hasResolution \/ p.hasCausation
  THEN LET axisGain == IF p.hasUncertainty THEN g.certainty
                       ELSE IF p.hasResolution THEN g.resolution
                       ELSE g.reasoning
           padVolume == -2800 + intensity * 5
           chord == IF p.hasUncertainty THEN <<0, 1, 6>> ELSE <<0, 4, 7>>
       IN  IF axisGain > 0
           THEN [ i \in 1..Len(chord) |->
                    Direct(Note("pad", midi, "1", chord[i], "2n",
                                padVolume - (i - 1) * 200, axisGain)) ]
           ELSE << >>
  ELSE << >>

\* variant: the cutoff is chosen uncertainty first
textureLayerUncertaintyFirst(p, intensity, midi, g) ==
  IF p.hasUncertainty \/ p.hasRevision \/ p.hasNegation
  THEN LET axisGain == IF p.hasUncertainty THEN g.certainty ELSE g.revision
           textureVolume == -3800 + intensity * 10
           filterFreq == IF p.hasUncertainty THEN 900
                         ELSE IF p.hasRevision THEN 1200 ELSE 600
       IN  IF axisGain > 0
           THEN << Direct([type |-> "noiseOn", layer |-> "texture",
                           filterFreq |-> filterFreq,
                           vol |-> [db |-> textureVolume, gain |-> axisGain]]),
                   Deferred(150, [type |-> "noiseStop", layer |-> "texture"]) >>
           ELSE << >>
  ELSE << >>

\* variant: the noise is started without a stop timer
textureLayerNoStop(p, intensity, midi, g) ==
  IF p.hasUncertainty \/ p.hasRevision \/ p.hasNegation
  THEN LET axisGain == IF p.hasUncertainty THEN g.certainty ELSE g.revision
           textureVolume == -3800 + intensity * 10
           filterFreq == IF p.hasRevision THEN 1200
                         ELSE IF p.hasNegation THEN 600 ELSE 900
       IN  IF axisGain > 0
           THEN << Direct([type |-> "noiseOn", layer |-> "texture",
                           filterFreq |-> filterFreq,
                           vol |-> [db |-> textureVolume, gain |-> axisGain]]) >>
           ELSE << >>
  ELSE << >>

textureLayer(p, intensity, midi, g) ==
  IF p.hasUncertainty \/ p.hasRevision \/ p.hasNegation
  THEN LET axisGain == IF p.hasUncertainty THEN g.certainty ELSE g.revision
           textureVolume == -3800 + intensity * 10
           filterFreq == IF p.hasRevision THEN 1200
                         ELSE IF p.hasNegation THEN 600 ELSE 900
       IN  IF axisGain > 0
           THEN << Direct([type |-> "noiseOn", layer |-> "texture",
                           filterFreq |-> filterFreq,
                           vol |-> [db |-> textureVolume, gain |-> axisGain]]),
                   Deferred(150, [type |-> "noiseStop", layer |-> "texture"]) >>
           ELSE << >>
  ELSE << >>

axisGains(controls) == [a \in Axes |-> getAxisGainMultiplier(controls, a)]

\* variant: the pad is skipped when the bass has sounded
layersWithPadOrBass(p, intensity, midi, g) ==
  bassLayer(p, intensity, midi, g)
    \o midLayer(p, intensity, midi, g)
    \o highLayer(p, intensity, midi, g)
    \o (IF bassLayer(p, intensity, midi, g) = << >>
        THEN padLayer(p, intensity, midi, g) ELSE << >>)
    \o textureLayer(p, intensity, midi, g)

\* the calls triggerLayers makes, in program order
layersWith(p, intensity, midi, g) ==
  bassLayer(p, intensity, midi, g)
    \o midLayer(p, intensity, midi, g)
    \o highLayer(p, intensity, midi, g)
    \o padLayer(p, intensity, midi, g)
    \o textureLayer(p, intensity, midi, g)

\* variant: the gains are those of the mixer map the component was mounted with
triggerLayersCached(p, intensity, midi, controls) ==
  CHOOSE sched \in { layersWith(p, intensity, midi, g) : g \in {axisGains(DefaultMixer)} } : TRUE

triggerLayers(p, intensity, midi, controls) ==
  CHOOSE sched \in { layersWith(p, intensity, midi, g) : g \in {axisGains(controls)} } : TRUE

----------------------------------------------------------------------------
(* The two chunk pipelines: the body of addDelta and its copy in replay *)

\* the locals of one addDelta run, from the results of the twelve tests
addDeltaLocals(text, p, meta, controls) ==
  LET intensity == calcIntensity(p, meta)
      midi == calcMidiNote(intensity, text)
  IN  [ text |-> text, patterns |-> p, meta |-> meta,
        ladder |-> ladderIntensity(p, meta), intensity |-> intensity,
        midi |-> midi, gains |-> axisGains(controls),
        sched |-> triggerLayers(p, intensity, midi, controls) ]

addDeltaDecide(text, controls) ==
  CHOOSE d \in { addDeltaLocals(text, p, meta, controls) :
                   p \in {detectPatterns(text)}, meta \in {hasMetacognition(text)} } : TRUE

\* variant: the copy in replay lacks the metacognition test
replayLadderIntensityOfFlags(p, meta) ==
  IF p.hasRevision THEN 90
  ELSE IF p.hasResolution THEN 85
  ELSE IF p.hasCertainty THEN 80
  ELSE IF p.hasUncertainty \/ p.hasHedging THEN 70
  ELSE IF p.hasEnumeration THEN 65
  ELSE IF p.hasQuestion THEN 60
  ELSE IF p.hasCausation THEN 60
  ELSE 50

replayLadderIntensity(p, meta) ==
  IF p.hasRevision THEN 90
  ELSE IF p.hasResolution THEN 85
  ELSE IF p.hasCertainty THEN 80
  ELSE IF p.hasUncertainty \/ meta \/ p.hasHedging THEN 70
  ELSE IF p.hasEnumeration THEN 65
  ELSE IF p.hasQuestion THEN 60
  ELSE IF p.hasCausation THEN 60
  ELSE 50

replayIntensity(p, meta) ==
  IF p.hasEmphasis THEN Min(100, replayLadderIntensity(p, meta) + 15)
  ELSE replayLadderIntensity(p, meta)

replayMidiNote(intensity, text) ==
  LET note == 48 * 100 + intensity * 36
      complexity == complexityOf(text)
  IN  IF complexity > 0 THEN note + complexity * 2 * 100 ELSE note

\* the locals of one iteration of the replay loop
replayLocals(text, p, meta, controls) ==
  LET intensity == replayIntensity(p, meta)
      midi == replayMidiNote(intensity, text)
  IN  [ text |-> text, patterns |-> p, meta |-> meta,
        ladder |-> replayLadderIntensity(p, meta), intensity |-> intensity,
        midi |-> midi, gains |-> axisGains(controls),
        sched |-> triggerLayers(p, intensity, midi, controls) ]

replayDecide(text, controls) ==
  CHOOSE d \in { replayLocals(text, p, meta, controls) :
                   p \in {detectPatterns(text)}, meta \in {hasMetacognition(text)} } : TRUE

----------------------------------------------------------------------------
(* Session text buffers *)

recentTextLimit == 200

RECURSIVE CharLen(_)
\* text.length, in characters
CharLen(text) ==
  IF text = <<>> THEN 0 ELSE Len(Head(text)) + CharLen(Tail(text))

RECURSIVE sliceLast(_, _)
\* text.slice(-n): an atom the cut goes through keeps its last characters
sliceLast(text, n) ==
  LET excess == CharLen(text) - n
  IN  IF excess <= 0 THEN text
      ELSE IF Len(Head(text)) <= excess THEN sliceLast(Tail(text), n)
      ELSE << SubSeq(Head(text), excess + 1, Len(Head(text))) >> \o Tail(text)

\* variant: over the limit only the new chunk is kept
appendRecentNewOnly(recent, text) ==
  LET joined == recent \o text
  IN  IF CharLen(joined) > recentTextLimit
      THEN sliceLast(text, recentTextLimit)
      ELSE joined

appendRecent(recent, text) ==
  LET joined == recent \o text
  IN  IF CharLen(joined) > recentTextLimit
      THEN sliceLast(joined, recentTextLimit)
      ELSE joined

----------------------------------------------------------------------------
(* State *)

InitSessionRefs ==
  [ lastDeltaTime |-> 0, deltaTimings |-> << >>, tokenVelocity |-> 1,
    burstCounter |-> 0, currentPhase |-> "idle", phaseIntensity |-> 0,
    sentenceLengths |-> << >>, repetitionCount |-> 0, pitchDrift |-> 0,
    psychStateHistory |-> << >>, scheduledNotes |-> << >> ]

\* new Tone.Noise('pink') with volume -35, new Tone.Filter({frequency: 800})
InitNoise ==
  [ state |-> "stopped", filterFreq |-> 800, vol |-> [db |-> -3500, gain |-> 100] ]

\* the API route before any request
NoRequest == [route |-> "none", upstream |-> << >>, fullAnswer |-> << >>, sent |-> << >>]

\* the page after mount: isStreaming false, no fetch made.  phase is the
\* position of handleRun ("fetching": awaiting fetch; "reading": in the read
\* loop of processStream; "ended": the loop saw done), buffer the loop's
\* local buffer, inbox the lines of the current read still to handle, calls
\* the calls the run made on the audio handle
InitPage == [isStreaming |-> FALSE, phase |-> "idle", buffer |-> << >>,
             inbox |-> << >>, calls |-> << >>]

\* the canvas after mount: no delta seen, no interval recorded.  clock is the
\* value performance.now() returned last (positive), arrivals the values it
\* returned to the addDelta calls made since the last reset, op the last call;
\* calls, sameTime and resets count the calls made
InitCanvas == [clock |-> 1, lastDeltaTime |-> 0, deltaTimings |-> << >>,
               arrivals |-> << >>, op |-> "none",
               calls |-> 0, sameTime |-> 0, resets |-> 0]

Init ==
  /\ backend = "unloaded"
  /\ hasObserver \in BOOLEAN
  /\ mixerControls = DefaultMixer
  /\ isPlaying = FALSE
  /\ currentSentence = << >>
  /\ recentText = << >>
  /\ sessionRefs = InitSessionRefs
  /\ noise = InitNoise
  /\ timers = << >>
  /\ starting = 0
  /\ replays = << >>
  /\ last = << >>
  /\ emitted = << >>
  /\ notified = << >>
  /\ lastCall = "none"
  /\ nCalls = 0
  /\ server = NoRequest
  /\ wire = << >>
  /\ page = InitPage
  /\ canvas = InitCanvas

\* an external call of the imperative handle
Called(op) ==
  /\ lastCall' = op
  /\ nCalls' = nCalls + 1

\* a step the runtime takes on its own (effect, promise continuation, timer)
Internal(op) ==
  /\ lastCall' = op
  /\ nCalls' = nCalls

\* a step that processes no chunk, makes no sound and notifies nobody
Quiet == emitted' = << >> /\ notified' = << >> /\ last' = << >>

IsDirect(it) == ~it.timer
IsDeferred(it) == it.timer

\* whether a direct call produces a sound event: noise.start() is made only
\* when the noise is not already started
Sounds(it) == it.act.type = "note" \/ noise.state # "started"

ActsOf(items) == [i \in 1..Len(items) |-> items[i].act]

TimersOf(items) ==
  [i \in 1..Len(items) |-> [delay |-> items[i].delay, act |-> items[i].act]]

NoiseOns(sched) ==
  SelectSeq(sched, LAMBDA it : IsDirect(it) /\ it.act.type = "noiseOn")

\* carry out the calls of one triggerLayers run
ApplySched(sched, before, after) ==
  /\ emitted' = ActsOf(SelectSeq(SelectSeq(sched, IsDirect), Sounds))
  /\ timers' = before \o TimersOf(SelectSeq(sched, IsDeferred)) \o after
  /\ noise' = IF NoiseOns(sched) # << >>
              THEN [ state |-> "started",
                     filterFreq |-> NoiseOns(sched)[1].act.filterFreq,
                     vol |-> NoiseOns(sched)[1].act.vol ]
              ELSE noise

Notify(axes) == notified' = IF hasObserver THEN << axes >> ELSE << >>

----------------------------------------------------------------------------
(* The runtime: module load, effects *)

\* import('tone').then(setTone)
LoadTone ==
  /\ backend = "unloaded"
  /\ backend' = "loaded"
  /\ Internal("loadTone") /\ Quiet
  /\ UNCHANGED << hasObserver, mixerControls, isPlaying, currentSentence,
                  recentText, sessionRefs, noise, timers, starting, replays >>

\* the effect that constructs the instruments
InitAudio ==
  /\ backend = "loaded"
  /\ backend' = "ready"
  /\ Internal("initAudio") /\ Quiet
  /\ UNCHANGED << hasObserver, mixerControls, isPlaying, currentSentence,
                  recentText, sessionRefs, noise, timers, starting, replays >>

----------------------------------------------------------------------------
(* The imperative handle *)

startAudio ==
  /\ Called("startAudio") /\ Quiet
  /\ starting' = IF backend = "unloaded" THEN starting ELSE starting + 1
  /\ UNCHANGED << backend, hasObserver, mixerControls, isPlaying, currentSentence,
                  recentText, sessionRefs, noise, timers, replays >>

\* variant: the continuation does not arm an engine that was just stopped or reset
StartAudioResumeUnlessStopped ==
  /\ starting > 0
  /\ starting' = starting - 1
  /\ isPlaying' = IF lastCall \in {"stopAudio", "reset"} THEN isPlaying ELSE TRUE
  /\ Internal("startAudioResume") /\ Quiet
  /\ UNCHANGED << backend, hasObserver, mixerControls, currentSentence,
                  recentText, sessionRefs, noise, timers, replays >>

\* the continuation of startAudio after await Tone.start()
StartAudioResume ==
  /\ starting > 0
  /\ starting' = starting - 1
  /\ isPlaying' = TRUE
  /\ Internal("startAudioResume") /\ Quiet
  /\ UNCHANGED << backend, hasObserver, mixerControls, currentSentence,
                  recentText, sessionRefs, noise, timers, replays >>

\* variant: the markers are looked for in the recent text, not in the chunk
addDeltaOnRecentText(text) ==
  /\ Called("addDelta")
  /\ IF backend # "ready" \/ ~isPlaying
     THEN /\ Quiet
          /\ UNCHANGED << currentSentence, recentText, noise, timers >>
     ELSE \E d \in {addDeltaDecide(appendRecent(recentText, text), mixerControls)} :
              /\ currentSentence' = currentSentence \o text
              /\ recentText' = appendRecent(recentText, text)
              /\ Notify(getActiveAxes(d.patterns))
              /\ ApplySched(d.sched, timers, << >>)
              /\ last' = << [d EXCEPT !.text = text] >>
  /\ UNCHANGED << backend, hasObserver, mixerControls, isPlaying, sessionRefs,
                  starting, replays >>

\* variant: the chunk is processed whether or not the session is armed
addDeltaUnarmed(text) ==
  /\ Called("addDelta")
  /\ IF backend # "ready"
     THEN /\ Quiet
          /\ UNCHANGED << currentSentence, recentText, noise, timers >>
     ELSE \E d \in {addDeltaDecide(text, mixerControls)} :
              /\ currentSentence' = currentSentence \o text
              /\ recentText' = appendRecent(recentText, text)
              /\ Notify(getActiveAxes(d.patterns))
              /\ ApplySched(d.sched, timers, << >>)
              /\ last' = << d >>
  /\ UNCHANGED << backend, hasObserver, mixerControls, isPlaying, sessionRefs,
                  starting, replays >>

\* variant: the text is recorded before the backend is looked at
addDeltaRecordFirst(text) ==
  /\ Called("addDelta")
  /\ IF ~isPlaying
     THEN /\ Quiet
          /\ UNCHANGED << currentSentence, recentText, noise, timers >>
     ELSE IF backend # "ready"
     THEN /\ Quiet
          /\ currentSentence' = currentSentence \o text
          /\ recentText' = appendRecent(recentText, text)
          /\ UNCHANGED << noise, timers >>
     ELSE \E d \in {addDeltaDecide(text, mixerControls)} :
              /\ currentSentence' = currentSentence \o text
              /\ recentText' = appendRecent(recentText, text)
              /\ Notify(getActiveAxes(d.patterns))
              /\ ApplySched(d.sched, timers, << >>)
              /\ last' = << d >>
  /\ UNCHANGED << backend, hasObserver, mixerControls, isPlaying, sessionRefs,
                  starting, replays >>

addDelta(text) ==
  /\ Called("addDelta")
  /\ IF backend # "ready" \/ ~isPlaying
     THEN /\ Quiet
          /\ UNCHANGED << currentSentence, recentText, noise, timers >>
     ELSE \E d \in {addDeltaDecide(text, mixerControls)} :
              /\ currentSentence' = currentSentence \o text
              /\ recentText' = appendRecent(recentText, text)
              /\ Notify(getActiveAxes(d.patterns))
              /\ ApplySched(d.sched, timers, << >>)
              /\ last' = << d >>
  /\ UNCHANGED << backend, hasObserver, mixerControls, isPlaying, sessionRefs,
                  starting, replays >>

concluding == << 60, 62, 64, 65, 67, 69, 71 >>   \* PHASE_SCALES.concluding as MIDI notes

FlourishChord == << concluding[1], concluding[3], concluding[5] >>

\* the timers of the final chord: mid and high share one callback per note
FlourishTimers ==
  [ i \in 1..3 |->
      [ delay |-> (i - 1) * 100,
        act |-> [ type |-> "chord",
                  notes |-> << Note("mid", FlourishChord[i] * 100, "1", 0, "2n", 0, 50),
                               Note("high", FlourishChord[i] * 100, "1", 12, "2n", 0, 30) >> ] ] ]
    \o << [ delay |-> 0,
            act |-> Note("bass", concluding[1] * 100, "1", 0, "1n", 0, 40) ] >>

\* variant: the flourish is played only on an armed session
startFlourishArmedOnly ==
  /\ Called("startFlourish") /\ Quiet
  /\ timers' = IF backend = "ready" /\ isPlaying THEN timers \o FlourishTimers ELSE timers
  /\ UNCHANGED << backend, hasObserver, mixerControls, isPlaying, currentSentence,
                  recentText, sessionRefs, noise, starting, replays >>

\* addDelta on an armed session whose observer, when notified, calls
\* updateMixerControls(controls) on the handle: the callback runs inside
\* triggerLayers before the gains are read
addDeltaObserved(text, controls) ==
  /\ hasObserver
  /\ backend = "ready" /\ isPlaying
  /\ Called("addDelta")
  /\ mixerControls' = controls
  /\ \E d \in {addDeltaDecide(text, controls)} :
       /\ currentSentence' = currentSentence \o text
       /\ recentText' = appendRecent(recentText, text)
       /\ Notify(getActiveAxes(d.patterns))
       /\ ApplySched(d.sched, timers, << >>)
       /\ last' = << d >>
  /\ UNCHANGED << backend, hasObserver, isPlaying, sessionRefs, starting, replays >>

startFlourish ==
  /\ Called("startFlourish") /\ Quiet
  /\ timers' = IF backend = "ready" THEN timers \o FlourishTimers ELSE timers
  /\ UNCHANGED << backend, hasObserver, mixerControls, isPlaying, currentSentence,
                  recentText, sessionRefs, noise, starting, replays >>

StoppedNoise == [noise EXCEPT !.state = "stopped"]

\* variant: stopping also discards the sentence accumulated so far
stopAudioClearing ==
  /\ Called("stopAudio") /\ Quiet
  /\ isPlaying' = FALSE
  /\ noise' = StoppedNoise
  /\ currentSentence' = << >>
  /\ UNCHANGED << backend, hasObserver, mixerControls,
                  recentText, sessionRefs, timers, starting, replays >>

stopAudio ==
  /\ Called("stopAudio") /\ Quiet
  /\ isPlaying' = FALSE
  /\ noise' = StoppedNoise
  /\ UNCHANGED << backend, hasObserver, mixerControls, currentSentence,
                  recentText, sessionRefs, timers, starting, replays >>

\* variant: the recent-text buffer survives a reset
resetKeepsRecent ==
  /\ Called("reset") /\ Quiet
  /\ sessionRefs' = InitSessionRefs
  /\ currentSentence' = << >>
  /\ noise' = StoppedNoise
  /\ isPlaying' = FALSE
  /\ UNCHANGED << backend, hasObserver, mixerControls, recentText, timers,
                  starting, replays >>

reset ==
  /\ Called("reset") /\ Quiet
  /\ sessionRefs' = InitSessionRefs
  /\ currentSentence' = << >>
  /\ recentText' = << >>
  /\ noise' = StoppedNoise
  /\ isPlaying' = FALSE
  /\ UNCHANGED << backend, hasObserver, mixerControls, timers, starting, replays >>

updateMixerControls(controls) ==
  /\ Called("updateMixerControls") /\ Quiet
  /\ mixerControls' = controls
  /\ UNCHANGED << backend, hasObserver, isPlaying, currentSentence, recentText,
                  sessionRefs, noise, timers, starting, replays >>

setActiveAxes(axes) ==
  /\ Called("setActiveAxes")
  /\ emitted' = << >>
  /\ last' = << >>
  /\ Notify(axes)
  /\ UNCHANGED << backend, hasObserver, mixerControls, isPlaying, currentSentence,
                  recentText, sessionRefs, noise, timers, starting, replays >>

replayDelay(speed) == 100 \div speed   \* const delay = 100 / speed

replay(chunks, speed) ==
  /\ Called("replay") /\ Quiet
  /\ IF backend = "unloaded"
     THEN UNCHANGED << noise, replays >>
     ELSE /\ noise' = StoppedNoise
          /\ replays' = Append(replays, [chunks |-> chunks, speed |-> speed])
  /\ UNCHANGED << backend, hasObserver, mixerControls, isPlaying, currentSentence,
                  recentText, sessionRefs, timers, starting >>

\* the callbacks keep the arguments of their replay call in scope
ReplayChunkTimer(chunks, i, speed) ==
  [ delay |-> replayDelay(speed),
    act |-> [type |-> "replayChunk", chunks |-> chunks, i |-> i, speed |-> speed] ]

ReplayFlourishTimer(chunks, speed) ==
  [ delay |-> replayDelay(speed) * 2,
    act |-> [type |-> "flourish", chunks |-> chunks, speed |-> speed] ]

\* variant: the loop stops one chunk short
ReplayNextOneShort(chunks, i, speed) ==
  IF i < Len(chunks)
  THEN << ReplayChunkTimer(chunks, i, speed) >>
  ELSE << ReplayFlourishTimer(chunks, speed) >>

\* what the replay loop awaits next: the delay before chunk i, or, past the
\* last chunk, the timer of the final flourish
ReplayNext(chunks, i, speed) ==
  IF i <= Len(chunks)
  THEN << ReplayChunkTimer(chunks, i, speed) >>
  ELSE << ReplayFlourishTimer(chunks, speed) >>

\* the continuation of replay after await Tone.start()
ReplayResume ==
  /\ replays # << >>
  /\ replays' = Tail(replays)
  /\ isPlaying' = TRUE
  /\ timers' = timers \o ReplayNext(Head(replays).chunks, 1, Head(replays).speed)
  /\ Internal("replayResume") /\ Quiet
  /\ UNCHANGED << backend, hasObserver, mixerControls, currentSentence, recentText,
                  sessionRefs, noise, starting >>

----------------------------------------------------------------------------
(* Timers *)

RemoveAt(seq, i) == SubSeq(seq, 1, i - 1) \o SubSeq(seq, i + 1, Len(seq))

\* the delay of the timer that is due next
NextDue == CHOOSE d \in {timers[i].delay : i \in 1..Len(timers)} :
              \A i \in 1..Len(timers) : timers[i].delay >= d

Due(i) == timers[i].delay = NextDue

\* among the timers due next, the one registered first
FirstDue == CHOOSE i \in 1..Len(timers) : Due(i) /\ \A j \in 1..(i - 1) : ~Due(j)

\* the other timers, once the time up to the next due timer has passed
Remaining ==
  LET rest == RemoveAt(timers, FirstDue)
  IN  [i \in 1..Len(rest) |-> [rest[i] EXCEPT !.delay = @ - NextDue]]

\* variant: a deferred note is rescaled by the gain its axis has when it fires
FireNoteCurrentGain(act, rest) ==
  /\ emitted' = IF act.layer = "mid" /\ act.dur = "32n"
                THEN IF getAxisGainMultiplier(mixerControls, "revision") > 0
                     THEN << [act EXCEPT !.vol.gain =
                                getAxisGainMultiplier(mixerControls, "revision")] >>
                     ELSE << >>
                ELSE << act >>
  /\ notified' = << >>
  /\ last' = << >>
  /\ timers' = rest
  /\ UNCHANGED << isPlaying, currentSentence, recentText, noise, sessionRefs, starting, page >>

FireNote(act, rest) ==
  /\ emitted' = << act >>
  /\ notified' = << >>
  /\ last' = << >>
  /\ timers' = rest
  /\ UNCHANGED << isPlaying, currentSentence, recentText, noise, sessionRefs, starting, page >>

FireChord(act, rest) ==
  /\ emitted' = act.notes
  /\ notified' = << >>
  /\ last' = << >>
  /\ timers' = rest
  /\ UNCHANGED << isPlaying, currentSentence, recentText, noise, sessionRefs, starting, page >>

\* variant: a stop timer stops the noise only when no later stop timer is pending
FireNoiseStopLast(rest) ==
  /\ Quiet
  /\ noise' = IF \E i \in 1..Len(rest) : rest[i].act.type = "noiseStop"
              THEN noise ELSE StoppedNoise
  /\ timers' = rest
  /\ UNCHANGED << isPlaying, currentSentence, recentText, sessionRefs, starting, page >>

FireNoiseStop(rest) ==
  /\ Quiet
  /\ noise' = StoppedNoise
  /\ timers' = rest
  /\ UNCHANGED << isPlaying, currentSentence, recentText, sessionRefs, starting, page >>

\* variant: the replay loop skips the chunks of a disarmed session
FireReplayChunkIfArmed(act, rest) ==
  LET text == act.chunks[act.i]
      next == ReplayNext(act.chunks, act.i + 1, act.speed)
  IN  /\ IF backend # "ready" \/ ~isPlaying
         THEN /\ Quiet
              /\ timers' = rest \o next
              /\ UNCHANGED << currentSentence, recentText, noise >>
         ELSE \E d \in {replayDecide(text, mixerControls)} :
                  /\ currentSentence' = currentSentence \o text
                  /\ recentText' = appendRecent(recentText, text)
                  /\ Notify(getActiveAxes(d.patterns))
                  /\ ApplySched(d.sched, rest, next)
                  /\ last' = << d >>
      /\ UNCHANGED << isPlaying, sessionRefs, starting, page >>

\* one iteration of the replay loop, resumed by its delay timer
FireReplayChunk(act, rest) ==
  LET text == act.chunks[act.i]
      next == ReplayNext(act.chunks, act.i + 1, act.speed)
  IN  /\ IF backend # "ready"
         THEN /\ Quiet
              /\ timers' = rest \o next
              /\ UNCHANGED << currentSentence, recentText, noise >>
         ELSE \E d \in {replayDecide(text, mixerControls)} :
                  /\ currentSentence' = currentSentence \o text
                  /\ recentText' = appendRecent(recentText, text)
                  /\ Notify(getActiveAxes(d.patterns))
                  /\ ApplySched(d.sched, rest, next)
                  /\ last' = << d >>
      /\ UNCHANGED << isPlaying, sessionRefs, starting, page >>

\* the final flourish of replay
FireFlourish(rest) ==
  /\ Quiet
  /\ timers' = IF backend = "ready" THEN rest \o FlourishTimers ELSE rest
  /\ UNCHANGED << isPlaying, currentSentence, recentText, noise, sessionRefs, starting, page >>

\* variant: a start asked for before the backend is loaded is kept pending
FireArmAudioKeepsStart(rest) ==
  /\ Quiet
  /\ sessionRefs' = InitSessionRefs
  /\ currentSentence' = << >>
  /\ recentText' = << >>
  /\ noise' = StoppedNoise
  /\ isPlaying' = FALSE
  /\ starting' = starting + 1
  /\ timers' = rest
  /\ UNCHANGED page

\* variant: the timer starts the audio without resetting the session
FireArmAudioNoReset(rest) ==
  /\ Quiet
  /\ starting' = IF backend = "unloaded" THEN starting ELSE starting + 1
  /\ timers' = rest
  /\ UNCHANGED << sessionRefs, currentSentence, recentText, noise, isPlaying, page >>

\* the timer handleRun registers: reset() then startAudio() on the handle
FireArmAudio(rest) ==
  /\ Quiet
  /\ sessionRefs' = InitSessionRefs
  /\ currentSentence' = << >>
  /\ recentText' = << >>
  /\ noise' = StoppedNoise
  /\ isPlaying' = FALSE
  /\ starting' = IF backend = "unloaded" THEN starting ELSE starting + 1
  /\ timers' = rest
  /\ UNCHANGED page

\* the timer the answer event registers: setAnswer, setIsStreaming(false)
FireShowAnswer(rest) ==
  /\ Quiet
  /\ page' = [page EXCEPT !.isStreaming = FALSE]
  /\ timers' = rest
  /\ UNCHANGED << isPlaying, currentSentence, recentText, noise, sessionRefs, starting >>

\* time passes up to the next due timer, whose callback runs
FireTimer ==
  /\ timers # << >>
  /\ LET act == timers[FirstDue].act
         rest == Remaining
     IN  CASE act.type = "note"        -> FireNote(act, rest)
           [] act.type = "chord"       -> FireChord(act, rest)
           [] act.type = "noiseStop"   -> FireNoiseStop(rest)
           [] act.type = "replayChunk" -> FireReplayChunk(act, rest)
           [] act.type = "flourish"    -> FireFlourish(rest)
           [] act.type = "armAudio"    -> FireArmAudio(rest)
           [] act.type = "showAnswer"  -> FireShowAnswer(rest)
  /\ Internal(timers[FirstDue].act.type)
  /\ UNCHANGED << backend, hasObserver, mixerControls, replays, server, wire, canvas >>

----------------------------------------------------------------------------
(* Inputs *)

Scenario1 == << "Well", ",", " ", "maybe", " ", "we", " ", "should", " ",
                "recon", "sider", "." >>
Scenario2 == << "First", ",", " ", "because", " ", "the", " ", "set", " ", "is", " ",
                "finite", ",", " ", "therefore", " ", "it", " ", "converges", "." >>
Scenario3 == << "Is", " ", "this", " ", "really", " ", "necessary", "?" >>

Chunks == { << "I", " ", "think" >>, << "maybe" >> }

SoloOnly(a) == [DefaultMixer EXCEPT ![a].solo = TRUE]

Mixers == { SoloOnly("reasoning") }

AxesInputs == { [a \in Axes |-> a = "reasoning"] }

ReplayInputs == { [chunks |-> << << "first" >> >>, speed |-> 2] }

----------------------------------------------------------------------------
(* The engine *)

Next ==
  \/ LoadTone /\ UNCHANGED << stream, canvas >>
  \/ InitAudio /\ UNCHANGED << stream, canvas >>
  \/ StartAudioResume /\ UNCHANGED << stream, canvas >>
  \/ ReplayResume /\ UNCHANGED << stream, canvas >>
  \/ FireTimer
  \/ nCalls < MaxCalls /\ startAudio /\ UNCHANGED << stream, canvas >>
  \/ nCalls < MaxCalls /\ \E text \in Chunks : addDelta(text) /\ UNCHANGED << stream, canvas >>
  \/ nCalls < MaxCalls /\ startFlourish /\ UNCHANGED << stream, canvas >>
  \/ nCalls < MaxCalls /\ stopAudio /\ UNCHANGED << stream, canvas >>
  \/ nCalls < MaxCalls /\ reset /\ UNCHANGED << stream, canvas >>
  \/ nCalls < MaxCalls /\ \E controls \in Mixers : updateMixerControls(controls) /\ UNCHANGED << stream, canvas >>
  \/ nCalls < MaxCalls /\ \E axes \in AxesInputs : setActiveAxes(axes) /\ UNCHANGED << stream, canvas >>
  \/ nCalls < MaxCalls /\ \E in \in ReplayInputs : replay(in.chunks, in.speed) /\ UNCHANGED << stream, canvas >>

Spec == Init /\ [][Next]_vars

----------------------------------------------------------------------------
(* The layer rules on every small combination of categories *)

Categories == Flags \cup {"hasMetacognition"}

CategoryOrder ==
  << "hasUncertainty", "hasCertainty", "hasRevision", "hasQuestion",
     "hasEnumeration", "hasEmphasis", "hasNegation", "hasCausation",
     "hasHedging", "hasComparison", "hasResolution", "hasMetacognition" >>

\* one phrase per category that matches the rule of that category only
Phrase(c) ==
  CASE c = "hasUncertainty"   -> << "maybe" >>
    [] c = "hasCertainty"     -> << "Clearly" >>
    [] c = "hasRevision"      -> << "but" >>
    [] c = "hasQuestion"      -> << "?" >>
    [] c = "hasEnumeration"   -> << "step", " ", "1", "2" >>
    [] c = "hasEmphasis"      -> << "really" >>
    [] c = "hasNegation"      -> << "don", "'", "t" >>
    [] c = "hasCausation"     -> << "due", " ", "to" >>
    [] c = "hasHedging"       -> << "sort", " ", "of" >>
    [] c = "hasComparison"    -> << "unlike" >>
    [] c = "hasResolution"    -> << "in", " ", "the", " ", "end" >>
    [] c = "hasMetacognition" -> << "I", " ", "think" >>

RECURSIVE PhrasesFrom(_, _)
\* the phrases of the categories of S, in CategoryOrder, each followed by a space
PhrasesFrom(S, i) ==
  IF i > Len(CategoryOrder) THEN << >>
  ELSE (IF CategoryOrder[i] \in S THEN Phrase(CategoryOrder[i]) \o << " " >> ELSE << >>)
         \o PhrasesFrom(S, i + 1)

ChunkOf(S) == PhrasesFrom(S, 1)

\* the example chunks of the three documented scenarios
ScenarioChunks == { Scenario1, Scenario2, Scenario3 }

\* chunks of white space only (the empty chunk is ChunkOf({}))
BlankChunks == { << " " >>, << " ", "\n", "\t" >> }

LayerChunks ==
  { ChunkOf(S) : S \in {T \in SUBSET Categories : Cardinality(T) <= MaxFlags} }
    \cup ScenarioChunks \cup BlankChunks

QuietAxis == [muted |-> FALSE, solo |-> FALSE, volume |-> 40]
MutedAxis == [muted |-> TRUE, solo |-> FALSE, volume |-> 100]
SoloAxis == [muted |-> FALSE, solo |-> TRUE, volume |-> 40]
SoloMutedAxis == [muted |-> TRUE, solo |-> TRUE, volume |-> 100]
SilentAxis == [muted |-> FALSE, solo |-> FALSE, volume |-> 0]
SoloSilentAxis == [muted |-> FALSE, solo |-> TRUE, volume |-> 0]

\* every set of axes muted, every set of axes soloed, and one axis quiet,
\* silent, soloed and muted, or soloed and silent
LayerMixers ==
  [Axes -> {DefaultAxis, MutedAxis}]
    \cup [Axes -> {DefaultAxis, SoloAxis}]
    \cup { [DefaultMixer EXCEPT ![a] = setting] :
             a \in Axes, setting \in {QuietAxis, SilentAxis, SoloMutedAxis, SoloSilentAxis} }

LayerInit == Init /\ hasObserver

ReplayRunning == \E i \in 1..Len(timers) : timers[i].act.type = "replayChunk"

\* one session: start, set the mixer, then one chunk, live or replayed
LayerNext ==
  \/ LoadTone /\ UNCHANGED << stream, canvas >>
  \/ InitAudio /\ UNCHANGED << stream, canvas >>
  \/ nCalls = 0 /\ backend = "ready" /\ startAudio /\ UNCHANGED << stream, canvas >>
  \/ StartAudioResume /\ UNCHANGED << stream, canvas >>
  \/ nCalls = 1 /\ isPlaying /\ \E controls \in LayerMixers : updateMixerControls(controls) /\ UNCHANGED << stream, canvas >>
  \/ nCalls = 2 /\ \E text \in LayerChunks : addDelta(text) /\ UNCHANGED << stream, canvas >>
  \/ nCalls = 2 /\ \E text \in LayerChunks : replay(<< text >>, 1) /\ UNCHANGED << stream, canvas >>
  \/ ReplayResume /\ UNCHANGED << stream, canvas >>
  \/ ReplayRunning /\ FireTimer

SpecLayers == LayerInit /\ [][LayerNext]_vars

----------------------------------------------------------------------------
(* The gain formula on every mixer map *)

Volumes == {0, 40, 100}

AllMixers == [Axes -> [muted : BOOLEAN, solo : BOOLEAN, volume : Volumes]]

GainChunks == { << "maybe" >>, << "first", ",", " ", "really" >> }

GainNext ==
  \/ LoadTone /\ UNCHANGED << stream, canvas >>
  \/ InitAudio /\ UNCHANGED << stream, canvas >>
  \/ nCalls = 0 /\ backend = "ready" /\ startAudio /\ UNCHANGED << stream, canvas >>
  \/ StartAudioResume /\ UNCHANGED << stream, canvas >>
  \/ nCalls = 1 /\ isPlaying /\ \E controls \in AllMixers : updateMixerControls(controls) /\ UNCHANGED << stream, canvas >>
  \/ nCalls = 2 /\ \E text \in GainChunks : addDelta(text) /\ UNCHANGED << stream, canvas >>

SpecGain == LayerInit /\ [][GainNext]_vars

----------------------------------------------------------------------------
(* One replay on a ready engine, with other calls of the handle made while it
   runs.  Timers and promise continuations are run by the event loop, hence
   the fairness conditions. *)

MaxSessionCalls == 3   \* external calls in one behaviour of SpecSession

SessionLists ==
  { << >>,
    << << "maybe" >> >>,
    << << "first" >>, << "maybe" >> >>,
    << << "maybe" >>, << "maybe" >>, << "first" >> >> }

SessionSpeeds == {1, 2}

SessionChunks == { << "maybe" >>, << "first" >> }

SessionMixers ==
  { SoloOnly("reasoning"), [DefaultMixer EXCEPT !["certainty"] = QuietAxis] }

SessionNext ==
  \/ LoadTone /\ UNCHANGED << stream, canvas >>
  \/ InitAudio /\ UNCHANGED << stream, canvas >>
  \/ nCalls = 0 /\ backend = "ready"
       /\ \E chunks \in SessionLists, speed \in SessionSpeeds : replay(chunks, speed) /\ UNCHANGED << stream, canvas >>
  \/ ReplayResume /\ UNCHANGED << stream, canvas >>
  \/ FireTimer
  \/ nCalls > 0 /\ nCalls < MaxSessionCalls /\ \E text \in SessionChunks : addDelta(text) /\ UNCHANGED << stream, canvas >>
  \/ nCalls > 0 /\ nCalls < MaxSessionCalls
       /\ \E controls \in SessionMixers : updateMixerControls(controls) /\ UNCHANGED << stream, canvas >>
  \/ nCalls > 0 /\ nCalls < MaxSessionCalls /\ stopAudio /\ UNCHANGED << stream, canvas >>
  \/ nCalls > 0 /\ nCalls < MaxSessionCalls /\ reset /\ UNCHANGED << stream, canvas >>

SpecSession ==
  LayerInit /\ [][SessionNext]_vars
    /\ WF_vars(ReplayResume /\ UNCHANGED << stream, canvas >>) /\ WF_vars(FireTimer)

----------------------------------------------------------------------------
(* The API route (api/stream) and the run handler of the page              *)
(*                                                                         *)
(* The response body is a sequence of atoms: the "data: " prefix, the JSON *)
(* text of an event in two halves (a read may end inside it), and newline  *)
(* characters.  JSON.stringify escapes the newlines of a text, so a line   *)
(* break on the wire is always one the route wrote.  Display state of the  *)
(* page (thinkingChunks, answer, showConnecting and its timer) is left out.*)

MaxUpstream == 2

StreamTexts == { << "first" >>, << "maybe" >> }

\* the chunks the upstream message stream delivers to the route's loop
ThinkingDelta(t) == [type |-> "thinking_delta", text |-> t]
TextDelta(t) == [type |-> "text_delta", text |-> t]
MessageStop == [type |-> "message_stop"]
Throw == [type |-> "throw"]

UpstreamBody == {ThinkingDelta(t) : t \in StreamTexts} \cup {TextDelta(<< "yes" >>)}

BodiesUpTo(n) == UNION {[1..k -> UpstreamBody] : k \in 0..n}

\* a message stream ends with message_stop, or throws at some point
UpstreamScripts ==
  {b \o << e >> : b \in BodiesUpTo(MaxUpstream), e \in {MessageStop, Throw}}

StartEvent == [type |-> "start"]
DeltaEvent(t) == [type |-> "delta", text |-> t]
EndEvent == [type |-> "end"]
AnswerEvent(a) == [type |-> "answer", answer |-> a]
ErrorEvent == [type |-> "error"]

NoResponse == << "No response generated." >>

JsonText(v) == << [kind |-> "json", value |-> v, half |-> 1],
                  [kind |-> "json", value |-> v, half |-> 2] >>

\* `data: ${JSON.stringify(event)}\n\n`
SSE(e) == << [kind |-> "data"] >> \o JsonText(e) \o << [kind |-> "nl"], [kind |-> "nl"] >>

RECURSIVE Encode(_)
Encode(events) ==
  IF events = << >> THEN << >> ELSE SSE(Head(events)) \o Encode(Tail(events))

\* the body of the 500 response: JSON, no "data: " prefix, no line break
KeyErrorBody == JsonText([error |-> "ANTHROPIC_API_KEY not configured"])

routeEventsAnswerFirst(chunk, fullAnswer) ==
  CASE chunk.type = "thinking_delta" -> << DeltaEvent(chunk.text) >>
    [] chunk.type = "message_stop" ->
         << AnswerEvent(IF fullAnswer = << >> THEN NoResponse ELSE fullAnswer), EndEvent >>
    [] chunk.type = "throw" -> << ErrorEvent >>
    [] OTHER -> << >>

\* the events one iteration of the route's loop enqueues, in order (a throw
\* is the catch block)
routeEvents(chunk, fullAnswer) ==
  CASE chunk.type = "thinking_delta" -> << DeltaEvent(chunk.text) >>
    [] chunk.type = "message_stop" ->
         << EndEvent, AnswerEvent(IF fullAnswer = << >> THEN NoResponse ELSE fullAnswer) >>
    [] chunk.type = "throw" -> << ErrorEvent >>
    [] OTHER -> << >>

\* POST: the 500 response when the key is missing, else the stream's start
RoutePost ==
  /\ server.route = "requested"
  /\ \/ /\ wire' = wire \o KeyErrorBody
        /\ server' = [server EXCEPT !.route = "closed"]
     \/ /\ wire' = wire \o SSE(StartEvent)
        /\ server' = [server EXCEPT !.route = "streaming", !.sent = << StartEvent >>]
  /\ Internal("POST") /\ Quiet
  /\ UNCHANGED << backend, hasObserver, mixerControls, isPlaying, currentSentence,
                  recentText, sessionRefs, noise, timers, starting, replays, page >>

\* one iteration of `for await (const chunk of stream)`, or the catch block
RouteChunk ==
  /\ server.route = "streaming"
  /\ server.upstream # << >>
  /\ LET chunk == Head(server.upstream)
         events == routeEvents(chunk, server.fullAnswer)
     IN  /\ wire' = wire \o Encode(events)
         /\ server' = [route |-> IF chunk.type = "throw" THEN "closed" ELSE "streaming",
                       upstream |-> Tail(server.upstream),
                       fullAnswer |-> IF chunk.type = "text_delta"
                                      THEN server.fullAnswer \o chunk.text
                                      ELSE server.fullAnswer,
                       sent |-> server.sent \o events]
  /\ Internal("routeChunk") /\ Quiet
  /\ UNCHANGED << backend, hasObserver, mixerControls, isPlaying, currentSentence,
                  recentText, sessionRefs, noise, timers, starting, replays, page >>

\* controller.close() after the loop
RouteClose ==
  /\ server.route = "streaming"
  /\ server.upstream = << >>
  /\ server' = [server EXCEPT !.route = "closed"]
  /\ Internal("routeClose") /\ Quiet
  /\ UNCHANGED << backend, hasObserver, mixerControls, isPlaying, currentSentence,
                  recentText, sessionRefs, noise, timers, starting, replays, wire, page >>

\* handleRun up to `await fetch`; script is what the upstream will deliver
handleRun(script) ==
  /\ ~page.isStreaming
  /\ page' = [isStreaming |-> TRUE, phase |-> "fetching", buffer |-> << >>,
              inbox |-> << >>, calls |-> << >>]
  /\ timers' = timers \o << [delay |-> 100, act |-> [type |-> "armAudio"]] >>
  /\ server' = [route |-> "requested", upstream |-> script, fullAnswer |-> << >>,
                sent |-> << >>]
  /\ wire' = << >>
  /\ Internal("handleRun") /\ Quiet
  /\ UNCHANGED << backend, hasObserver, mixerControls, isPlaying, currentSentence,
                  recentText, sessionRefs, noise, starting, replays >>

\* fetch resolves with the response; processStream() starts its loop
FetchResolves ==
  /\ page.phase = "fetching"
  /\ server.route \in {"streaming", "closed"}
  /\ page' = [page EXCEPT !.phase = "reading"]
  /\ Internal("fetchResolves") /\ Quiet
  /\ UNCHANGED << backend, hasObserver, mixerControls, isPlaying, currentSentence,
                  recentText, sessionRefs, noise, timers, starting, replays,
                  server, wire >>

RECURSIVE SplitLinesNoCarry(_, _, _)
\* variant: the unfinished last line is not kept for the next read
SplitLinesNoCarry(atoms, cur, lines) ==
  IF atoms = << >> THEN [lines |-> lines, rest |-> << >>]
  ELSE IF Head(atoms).kind = "nl"
       THEN SplitLinesNoCarry(Tail(atoms), << >>, Append(lines, cur))
       ELSE SplitLinesNoCarry(Tail(atoms), Append(cur, Head(atoms)), lines)

\* buffer.split('\n') with lines.pop(): the complete lines and the rest
RECURSIVE SplitLines(_, _, _)
SplitLines(atoms, cur, lines) ==
  IF atoms = << >> THEN [lines |-> lines, rest |-> cur]
  ELSE IF Head(atoms).kind = "nl"
       THEN SplitLines(Tail(atoms), << >>, Append(lines, cur))
       ELSE SplitLines(Tail(atoms), Append(cur, Head(atoms)), lines)

\* line.startsWith('data: ') and JSON.parse(line.slice(6)): the event, or
\* nothing when the line is no data line or the parse throws
ParseLine(line) ==
  IF line = << >> \/ line[1].kind # "data" THEN << >>
  ELSE IF /\ Len(line) = 3
          /\ line[2].kind = "json" /\ line[2].half = 1
          /\ line[3].kind = "json" /\ line[3].half = 2
          /\ line[2].value = line[3].value
       THEN << line[2].value >>
       ELSE << >>

\* reader.read() returns some of the bytes enqueued so far
ReadChunk ==
  /\ page.phase = "reading"
  /\ page.inbox = << >>
  /\ wire # << >>
  /\ \E n \in 1..Len(wire) :
       LET split == SplitLines(page.buffer \o SubSeq(wire, 1, n), << >>, << >>)
       IN  /\ page' = [page EXCEPT !.buffer = split.rest, !.inbox = split.lines]
           /\ wire' = SubSeq(wire, n + 1, Len(wire))
  /\ Internal("read") /\ Quiet
  /\ UNCHANGED << backend, hasObserver, mixerControls, isPlaying, currentSentence,
                  recentText, sessionRefs, noise, timers, starting, replays, server >>

\* reader.read() returns done
ReadDone ==
  /\ page.phase = "reading"
  /\ page.inbox = << >>
  /\ wire = << >>
  /\ server.route = "closed"
  /\ page' = [page EXCEPT !.phase = "ended"]
  /\ Internal("readDone") /\ Quiet
  /\ UNCHANGED << backend, hasObserver, mixerControls, isPlaying, currentSentence,
                  recentText, sessionRefs, noise, timers, starting, replays,
                  server, wire >>

\* one iteration of `for (const line of lines)`
HandleLine ==
  /\ page.inbox # << >>
  /\ LET parsed == ParseLine(Head(page.inbox))
         type == IF parsed = << >> THEN "none" ELSE parsed[1].type
         popped == [page EXCEPT !.inbox = Tail(@)]
     IN  CASE type = "delta" ->
                /\ addDelta(parsed[1].text)
                /\ page' = [popped EXCEPT
                              !.calls = Append(@, [op |-> "addDelta", text |-> parsed[1].text])]
           [] type = "end" ->
                /\ startFlourish
                /\ page' = [popped EXCEPT !.calls = Append(@, [op |-> "startFlourish"])]
           [] type = "answer" ->
                /\ timers' = timers \o << [delay |-> 3000, act |-> [type |-> "showAnswer"]] >>
                /\ page' = popped
                /\ Internal("line") /\ Quiet
                /\ UNCHANGED << backend, hasObserver, mixerControls, isPlaying,
                                currentSentence, recentText, sessionRefs, noise,
                                starting, replays >>
           [] OTHER ->
                /\ page' = popped
                /\ Internal("line") /\ Quiet
                /\ UNCHANGED << backend, hasObserver, mixerControls, isPlaying,
                                currentSentence, recentText, sessionRefs, noise,
                                timers, starting, replays >>
  /\ UNCHANGED << server, wire >>

\* the page renders <ThoughtAudio> without onActiveAxesChange
StreamInit == Init /\ ~hasObserver

\* the lines of one read are handled without interruption
BetweenTasks == page.inbox = << >>

\* one run of the page: the engine loads and initializes at any time, the
\* user starts the first run, the route streams and the page reads
StreamNext ==
  \/ BetweenTasks /\ LoadTone /\ UNCHANGED << stream, canvas >>
  \/ BetweenTasks /\ InitAudio /\ UNCHANGED << stream, canvas >>
  \/ BetweenTasks /\ StartAudioResume /\ UNCHANGED << stream, canvas >>
  \/ BetweenTasks /\ FireTimer
  \/ /\ BetweenTasks /\ page.phase = "idle"
     /\ \E script \in UpstreamScripts : handleRun(script)
     /\ UNCHANGED canvas
  \/ RoutePost /\ UNCHANGED canvas
  \/ RouteChunk /\ UNCHANGED canvas
  \/ RouteClose /\ UNCHANGED canvas
  \/ FetchResolves /\ UNCHANGED canvas
  \/ ReadChunk /\ UNCHANGED canvas
  \/ ReadDone /\ UNCHANGED canvas
  \/ HandleLine /\ UNCHANGED canvas

SpecStream == StreamInit /\ [][StreamNext]_vars

----------------------------------------------------------------------------
(* Two chunks in a row on an armed session: every step of the intensity    *)
(* ladder, with and without emphasis, followed by commas and parentheses   *)

MaxPunct == 3

PitchPhrases ==
  { << >>, << "due", " ", "to" >>, << "first" >>, << "maybe" >>, << "Clearly" >>,
    << "in", " ", "the", " ", "end" >>, << "but" >> }

PitchStems == PitchPhrases \cup { p \o << " ", "really" >> : p \in PitchPhrases }

Puncts == UNION { [1..k -> {",", "("}] : k \in 0..MaxPunct }

PitchChunks == { s \o << " " >> \o t : s \in PitchStems, t \in Puncts }

PitchNext ==
  \/ LoadTone /\ UNCHANGED << stream, canvas >>
  \/ InitAudio /\ UNCHANGED << stream, canvas >>
  \/ nCalls = 0 /\ backend = "ready" /\ startAudio /\ UNCHANGED << stream, canvas >>
  \/ StartAudioResume /\ UNCHANGED << stream, canvas >>
  \/ nCalls \in {1, 2} /\ isPlaying /\ \E text \in PitchChunks : addDelta(text) /\ UNCHANGED << stream, canvas >>

SpecPitch == LayerInit /\ [][PitchNext]_vars

----------------------------------------------------------------------------
(* One chunk with and without an observer, which may call the handle back  *)

ObserverChunks ==
  { ChunkOf(S) : S \in {T \in SUBSET Categories : Cardinality(T) <= 2} }

ObserverMixers ==
  { DefaultMixer, [DefaultMixer EXCEPT !["certainty"] = MutedAxis],
    SoloOnly("reasoning") }

ObserverNext ==
  \/ LoadTone /\ UNCHANGED << stream, canvas >>
  \/ InitAudio /\ UNCHANGED << stream, canvas >>
  \/ nCalls = 0 /\ backend = "ready" /\ startAudio /\ UNCHANGED << stream, canvas >>
  \/ StartAudioResume /\ UNCHANGED << stream, canvas >>
  \/ nCalls = 1 /\ isPlaying
       /\ \E controls \in ObserverMixers : updateMixerControls(controls) /\ UNCHANGED << stream, canvas >>
  \/ nCalls = 2 /\ \E text \in ObserverChunks : addDelta(text) /\ UNCHANGED << stream, canvas >>
  \/ nCalls = 2 /\ \E text \in ObserverChunks, controls \in ObserverMixers :
                     addDeltaObserved(text, controls) /\ UNCHANGED << stream, canvas >>
  \/ nCalls \in {2, 3} /\ \E axes \in [Axes -> BOOLEAN] : setActiveAxes(axes) /\ UNCHANGED << stream, canvas >>

SpecObserver == Init /\ [][ObserverNext]_vars

----------------------------------------------------------------------------
(* Long sessions: chunks of 2, 72 and 140 characters, live and replayed,   *)
(* with resets and restarts in between                                     *)

MaxRecentCalls == 3

LongWord == "abcdefghijklmnopqrstuvwxyzabcdefghijklmnopqrstuvwxyzabcdefghijklmnopqr"

RecentChunks ==
  { << "x", " " >>, << LongWord, ",", " " >>, << LongWord, LongWord >> }

RecentLists == { << << LongWord, LongWord >>, << LongWord, ",", " " >> >> }

RecentNext ==
  \/ LoadTone /\ UNCHANGED << stream, canvas >>
  \/ InitAudio /\ UNCHANGED << stream, canvas >>
  \/ nCalls = 0 /\ backend = "ready" /\ startAudio /\ UNCHANGED << stream, canvas >>
  \/ StartAudioResume /\ UNCHANGED << stream, canvas >>
  \/ ReplayResume /\ UNCHANGED << stream, canvas >>
  \/ FireTimer
  \/ nCalls \in 1..MaxRecentCalls /\ \E text \in RecentChunks : addDelta(text) /\ UNCHANGED << stream, canvas >>
  \/ nCalls \in 1..MaxRecentCalls /\ \E chunks \in RecentLists : replay(chunks, 1) /\ UNCHANGED << stream, canvas >>
  \/ nCalls \in 1..MaxRecentCalls /\ reset /\ UNCHANGED << stream, canvas >>
  \/ nCalls \in 1..MaxRecentCalls /\ startAudio /\ UNCHANGED << stream, canvas >>

SpecRecent == LayerInit /\ [][RecentNext]_vars

----------------------------------------------------------------------------
(* Properties: what a processed chunk did *)

Processed == last # << >>

HasLayer(act) == act.type \in {"note", "noiseOn", "noiseStop"}

\* the sound events of layer L made by the last step, and the timers of L pending
EmittedOf(L) == SelectSeq(emitted, LAMBDA e : e.layer = L)
PendingOf(L) == SelectSeq(timers, LAMBDA t : HasLayer(t.act) /\ t.act.layer = L)

Layers == {"bass", "mid", "high", "pad", "texture"}

Silent(L) == EmittedOf(L) = << >> /\ PendingOf(L) = << >>

\* delays and semitone offsets of a run of note timers
Shape(ts) == [i \in 1..Len(ts) |-> << ts[i].delay, ts[i].act.pitch.semis >>]

Semis(es) == [i \in 1..Len(es) |-> es[i].pitch.semis]

GainsOf(es) == {es[i].vol.gain : i \in 1..Len(es)}
TimerGainsOf(ts) == {ts[i].act.vol.gain : i \in 1..Len(ts)}

SetFlags(p) == {f \in Flags : p[f]}

SomeSolo(c) == \E a \in Axes : c[a].solo

\* first match of a priority list of [when, value] pairs
RECURSIVE FirstMatch(_, _)
FirstMatch(rungs, default) ==
  IF rungs = << >> THEN default
  ELSE IF Head(rungs).when THEN Head(rungs).value
  ELSE FirstMatch(Tail(rungs), default)

----------------------------------------------------------------------------
(* C1 *)

LadderOfEleven(p) ==
  FirstMatch(<< [when |-> p.hasRevision, value |-> 90],
                [when |-> p.hasResolution, value |-> 85],
                [when |-> p.hasCertainty, value |-> 80],
                [when |-> p.hasUncertainty \/ p.hasHedging, value |-> 70],
                [when |-> p.hasEnumeration, value |-> 65],
                [when |-> p.hasQuestion, value |-> 60],
                [when |-> p.hasCausation, value |-> 60] >>, 50)

LadderWithMetacognition(p, meta) ==
  FirstMatch(<< [when |-> p.hasRevision, value |-> 90],
                [when |-> p.hasResolution, value |-> 85],
                [when |-> p.hasCertainty, value |-> 80],
                [when |-> p.hasUncertainty \/ p.hasHedging \/ meta, value |-> 70],
                [when |-> p.hasEnumeration, value |-> 65],
                [when |-> p.hasQuestion, value |-> 60],
                [when |-> p.hasCausation, value |-> 60] >>, 50)

\* C1 as stated: for every chunk processed by addDelta or by replay, the
\* intensity before the emphasis bonus is the first-match ladder value of the
\* eleven pattern flags alone (0.90 revision, 0.85 resolution, 0.80 certainty,
\* 0.70 uncertainty or hedging, 0.65 enumeration, 0.60 question, 0.60
\* causation, else 0.50).
C1_LadderOfElevenFlags ==
  Processed => last[1].ladder = LadderOfEleven(last[1].patterns)

\* C1 amended: the ladder has one more input, the metacognitive-marker test
\* ("I think", "let me", ...), which shares the 0.70 rung with uncertainty and
\* hedging; the eleven flags and that test determine the value.
C1_LadderWithMetacognition ==
  Processed =>
    last[1].ladder = LadderWithMetacognition(last[1].patterns, last[1].meta)

\* a chunk with a metacognitive phrase and none of the eleven flags
C1_Witness ==
  /\ Processed
  /\ lastCall = "addDelta"
  /\ last[1].meta
  /\ SetFlags(last[1].patterns) = {}
  /\ last[1].ladder = 70

----------------------------------------------------------------------------
(* C2, C3 *)

AllSolo(c) == \A a \in Axes : c[a].solo

\* C2: the gain of an axis is 0 if some axis is soloed and this one is not,
\* otherwise 0 if this axis is muted, otherwise volume/100; with all four
\* axes soloed or none soloed each axis gets 0 if muted, else volume/100.
C2_GainFormula ==
  Processed =>
    \A a \in Axes :
      LET c == mixerControls
          g == last[1].gains[a]
          silencedBySolo == SomeSolo(c) /\ ~c[a].solo
      IN  /\ silencedBySolo => g = 0
          /\ ~silencedBySolo /\ c[a].muted => g = 0
          /\ ~silencedBySolo /\ ~c[a].muted => g = c[a].volume
          /\ AllSolo(c) \/ ~SomeSolo(c) => g = (IF c[a].muted THEN 0 ELSE c[a].volume)

\* all four axes soloed, one of them muted, another at a fractional volume
C2_Witness ==
  /\ Processed
  /\ AllSolo(mixerControls)
  /\ mixerControls["certainty"].muted
  /\ ~mixerControls["reasoning"].muted /\ mixerControls["reasoning"].volume = 40
  /\ last[1].gains["certainty"] = 0
  /\ last[1].gains["reasoning"] = 40

ExactlyOneSolo(c) == Cardinality({a \in Axes : c[a].solo}) = 1

\* C3 as stated: with exactly one axis soloed every other axis has gain 0 and
\* the soloed axis has gain volume/100 whatever its own mute flag.
C3_SoloIgnoresMute ==
  Processed /\ ExactlyOneSolo(mixerControls) =>
    \A a \in Axes :
      last[1].gains[a] =
        (IF mixerControls[a].solo THEN mixerControls[a].volume ELSE 0)

\* C3 amended: with exactly one axis soloed every other axis has gain 0 and
\* the soloed axis has gain volume/100 if it is not muted and 0 if it is
\* muted: mute still applies under solo.
C3_SoloKeepsMute ==
  Processed /\ ExactlyOneSolo(mixerControls) =>
    \A a \in Axes :
      last[1].gains[a] =
        (IF ~mixerControls[a].solo THEN 0
         ELSE IF mixerControls[a].muted THEN 0
         ELSE mixerControls[a].volume)

\* one axis soloed and muted at full volume, another axis audible on its own
C3_Witness ==
  /\ Processed
  /\ ExactlyOneSolo(mixerControls)
  /\ mixerControls["reasoning"].solo /\ mixerControls["reasoning"].muted
  /\ mixerControls["reasoning"].volume = 100
  /\ ~mixerControls["certainty"].muted /\ mixerControls["certainty"].volume = 100
  /\ last[1].gains["reasoning"] = 0
  /\ last[1].gains["certainty"] = 0

----------------------------------------------------------------------------
(* C4 .. C8: which layers sound *)

P == last[1].patterns
G == last[1].gains

Triggered(L, p) ==
  CASE L = "bass"    -> p.hasCausation \/ p.hasEnumeration \/ p.hasResolution
    [] L = "mid"     -> p.hasRevision \/ p.hasQuestion \/ p.hasCertainty
    [] L = "high"    -> p.hasEmphasis \/ p.hasComparison \/ p.hasHedging
    [] L = "pad"     -> p.hasUncertainty \/ p.hasResolution \/ p.hasCausation
    [] L = "texture" -> p.hasUncertainty \/ p.hasRevision \/ p.hasNegation

\* the axis that governs layer L for a chunk with flags p ("none": ungoverned)
GoverningAxis(L, p) ==
  CASE L = "bass"    -> IF p.hasCausation \/ p.hasEnumeration THEN "reasoning"
                        ELSE "resolution"
    [] L = "mid"     -> IF p.hasRevision \/ p.hasQuestion THEN "revision"
                        ELSE IF p.hasCertainty THEN "certainty"
                        ELSE "none"
    [] L = "high"    -> IF p.hasEmphasis THEN "resolution"
                        ELSE IF p.hasComparison THEN "reasoning"
                        ELSE "certainty"
    [] L = "pad"     -> IF p.hasUncertainty THEN "certainty"
                        ELSE IF p.hasResolution THEN "resolution"
                        ELSE "reasoning"
    [] L = "texture" -> IF p.hasUncertainty THEN "certainty" ELSE "revision"

OnlyReasoningSolo(c) == \A a \in Axes : c[a].solo <=> a = "reasoning"

SoloedOrUngoverned ==
  \A L \in Layers :
    ~Silent(L) =>
      \/ GoverningAxis(L, P) = "none"
      \/ mixerControls[GoverningAxis(L, P)].solo

CertaintyOnlyIsSilent ==
  OnlyReasoningSolo(mixerControls) /\ SetFlags(P) = {"hasCertainty"} =>
    emitted = << >> /\ \A L \in Layers : Silent(L)

BassNoteWithGain(gain) ==
  /\ Len(EmittedOf("bass")) = 1
  /\ EmittedOf("bass")[1].pitch = [midi |-> last[1].midi, ratio |-> "1/4", semis |-> 0]
  /\ EmittedOf("bass")[1].vol.gain = gain

\* C4 as stated: with some axis soloed, every sound event of a processed
\* chunk is governed by a soloed axis or is the plain mid note; with only
\* reasoning soloed a certainty-only chunk makes no sound and an
\* enumeration-only chunk emits the bass note with gain reasoning.volume/100.
C4_SoloSilencesOthers ==
  Processed /\ SomeSolo(mixerControls) =>
    /\ SoloedOrUngoverned
    /\ CertaintyOnlyIsSilent
    /\ OnlyReasoningSolo(mixerControls) /\ SetFlags(P) = {"hasEnumeration"} =>
         BassNoteWithGain(mixerControls["reasoning"].volume)

\* C4 amended: as above, except that the enumeration-only chunk emits the
\* bass note with gain reasoning.volume/100 only when the reasoning axis is
\* not muted and its volume is above 0; when it is muted or at volume 0 the
\* bass layer emits nothing.
C4_SoloSilencesOthersMuteApplies ==
  Processed /\ SomeSolo(mixerControls) =>
    /\ SoloedOrUngoverned
    /\ CertaintyOnlyIsSilent
    /\ OnlyReasoningSolo(mixerControls) /\ SetFlags(P) = {"hasEnumeration"} =>
         IF ~mixerControls["reasoning"].muted /\ mixerControls["reasoning"].volume > 0
         THEN BassNoteWithGain(mixerControls["reasoning"].volume)
         ELSE Silent("bass")

\* only reasoning soloed, and muted: the enumeration-only chunk has no bass
C4_Witness ==
  /\ Processed
  /\ lastCall = "addDelta"
  /\ OnlyReasoningSolo(mixerControls)
  /\ mixerControls["reasoning"].muted
  /\ SetFlags(P) = {"hasEnumeration"}
  /\ Silent("bass")
  /\ ~Silent("mid")

\* C5: a layer branch whose governing-axis gain is 0 when the chunk is
\* processed schedules nothing: no immediate note, no timer, no noise start.
C5_ZeroGainSchedulesNothing ==
  Processed =>
    \A L \in Layers :
      Triggered(L, P) /\ G[GoverningAxis(L, P)] = 0 =>
        /\ Silent(L)
        /\ L = "texture" => noise = InitNoise

\* a chunk that triggers all five layers with every governing gain at 0
C5_Witness ==
  /\ Processed
  /\ \A L \in Layers : Triggered(L, P) /\ G[GoverningAxis(L, P)] = 0
  /\ emitted = << >>
  /\ \A i \in 1..Len(timers) : ~HasLayer(timers[i].act)

MidRun(offsets, spacing, gain) ==
  /\ EmittedOf("mid") = << >>
  /\ IF gain > 0
     THEN /\ Shape(PendingOf("mid")) =
               [i \in 1..Len(offsets) |-> << (i - 1) * spacing, offsets[i] >>]
          /\ TimerGainsOf(PendingOf("mid")) = {gain}
          /\ \A i \in 1..Len(offsets) :
               /\ PendingOf("mid")[i].act.pitch.midi = last[1].midi
               /\ PendingOf("mid")[i].act.pitch.ratio = "1"
     ELSE PendingOf("mid") = << >>

\* C6: the mid layer takes exactly one of four branches by first match:
\* revision -> descending run (0,-2,-4,-6,-8; 30 ms) gated by revision; else
\* question -> ascending arpeggio (0,2,4,7,9; 40 ms) gated by revision; else
\* certainty -> major triad (0,4,7; 20 ms) gated by certainty; else one plain
\* note at the base pitch, gated by no axis.
C6_MidBranch ==
  Processed =>
    IF P.hasRevision THEN MidRun(<<0, -2, -4, -6, -8>>, 30, G["revision"])
    ELSE IF P.hasQuestion THEN MidRun(<<0, 2, 4, 7, 9>>, 40, G["revision"])
    ELSE IF P.hasCertainty THEN MidRun(<<0, 4, 7>>, 20, G["certainty"])
    ELSE /\ PendingOf("mid") = << >>
         /\ Len(EmittedOf("mid")) = 1
         /\ EmittedOf("mid")[1].pitch = [midi |-> last[1].midi, ratio |-> "1", semis |-> 0]
         /\ EmittedOf("mid")[1].vol.gain = 100

\* revision, question and certainty all set: only the descending run is made
C6_Witness ==
  /\ Processed
  /\ P.hasRevision /\ P.hasQuestion /\ P.hasCertainty
  /\ G["revision"] > 0 /\ G["certainty"] > 0
  /\ Len(PendingOf("mid")) = 5
  /\ PendingOf("mid")[2].act.pitch.semis = -2

BassRule ==
  /\ PendingOf("bass") = << >>
  /\ IF Triggered("bass", P) /\ G[GoverningAxis("bass", P)] > 0
     THEN BassNoteWithGain(G[GoverningAxis("bass", P)])
     ELSE EmittedOf("bass") = << >>

HighRule ==
  IF Triggered("high", P) /\ G[GoverningAxis("high", P)] > 0
  THEN IF P.hasEmphasis
       THEN /\ EmittedOf("high") = << >>
            /\ Shape(PendingOf("high")) = << <<0, 0>>, <<25, 5>>, <<50, 7>>, <<75, 12>> >>
            /\ TimerGainsOf(PendingOf("high")) = {G[GoverningAxis("high", P)]}
       ELSE /\ PendingOf("high") = << >>
            /\ Semis(EmittedOf("high")) = << 0 >>
            /\ GainsOf(EmittedOf("high")) = {G[GoverningAxis("high", P)]}
  ELSE Silent("high")

PadRule ==
  /\ PendingOf("pad") = << >>
  /\ IF Triggered("pad", P) /\ G[GoverningAxis("pad", P)] > 0
     THEN /\ Semis(EmittedOf("pad")) =
               (IF P.hasUncertainty THEN <<0, 1, 6>> ELSE <<0, 4, 7>>)
          /\ GainsOf(EmittedOf("pad")) = {G[GoverningAxis("pad", P)]}
     ELSE EmittedOf("pad") = << >>

\* C7: bass emits one note at base pitch / 4 iff causation, enumeration or
\* resolution is set and its governing gain is > 0 (reasoning for causation or
\* enumeration, else resolution); high emits iff emphasis, comparison or
\* hedging is set and its gain is > 0 (resolution if emphasis, else reasoning
\* if comparison, else certainty), a 4-note burst (0,5,7,12; 25 ms) under
\* emphasis and one note otherwise; pad emits a 3-note chord iff uncertainty,
\* resolution or causation is set and its gain is > 0 (certainty if
\* uncertainty, else resolution, else reasoning), (0,1,6) under uncertainty
\* and (0,4,7) otherwise.
C7_BassHighPad == Processed => BassRule /\ HighRule /\ PadRule

\* emphasis with comparison, the two axes at different gains: the burst is
\* governed by resolution, while bass and pad sound for causation
C7_Witness ==
  /\ Processed
  /\ P.hasEmphasis /\ P.hasComparison /\ P.hasCausation
  /\ G["resolution"] > 0 /\ G["reasoning"] > 0 /\ G["resolution"] # G["reasoning"]
  /\ Len(PendingOf("high")) = 4
  /\ Len(EmittedOf("bass")) = 1
  /\ Len(EmittedOf("pad")) = 3

Cutoff(p) ==
  IF p.hasRevision THEN 1200 ELSE IF p.hasNegation THEN 600 ELSE 900

\* C8: the texture layer fires iff uncertainty, revision or negation is set
\* and its governing gain is > 0 (certainty when uncertainty is set, revision
\* otherwise); the cutoff is 1200 Hz for revision, else 600 Hz for negation,
\* else 900 Hz for uncertainty, so uncertainty with revision uses 1200 Hz.
C8_Texture ==
  Processed =>
    IF Triggered("texture", P) /\ G[GoverningAxis("texture", P)] > 0
    THEN /\ Len(EmittedOf("texture")) = 1
         /\ EmittedOf("texture")[1].type = "noiseOn"
         /\ EmittedOf("texture")[1].filterFreq = Cutoff(P)
         /\ EmittedOf("texture")[1].vol.gain = G[GoverningAxis("texture", P)]
         /\ noise.state = "started" /\ noise.filterFreq = Cutoff(P)
         /\ Len(PendingOf("texture")) = 1
         /\ PendingOf("texture")[1].act.type = "noiseStop"
         /\ PendingOf("texture")[1].delay = 150
    ELSE Silent("texture") /\ noise = InitNoise

\* uncertainty and revision together, certainty audible and revision silenced
C8_Witness ==
  /\ Processed
  /\ P.hasUncertainty /\ P.hasRevision
  /\ G["certainty"] > 0 /\ G["revision"] = 0
  /\ noise.state = "started" /\ noise.filterFreq = 1200

----------------------------------------------------------------------------
(* C9, C10: calls on a session that is not armed or not initialized *)

\* C9: addDelta called while the session is not armed produces no sound
\* event, schedules no timer, sends no active-axes notification and leaves
\* every session field unchanged.
C9_UnarmedAddDeltaDoesNothing ==
  [][ lastCall' = "addDelta" /\ ~isPlaying =>
        /\ emitted' = << >> /\ notified' = << >> /\ last' = << >>
        /\ UNCHANGED << timers, noise, isPlaying, currentSentence, recentText,
                        sessionRefs, mixerControls, starting, replays >> ]_vars

\* addDelta on an initialized engine that is not armed, with a flourish
\* pending: its timers stay as they were
C9_Witness ==
  /\ lastCall = "addDelta"
  /\ backend = "ready" /\ hasObserver
  /\ ~isPlaying /\ starting = 0
  /\ timers # << >>
  /\ currentSentence = << >>

TriggerSteps == {"addDelta", "startFlourish", "replay", "replayResume",
                 "replayChunk", "flourish"}

Dropped ==
  /\ emitted' = << >> /\ notified' = << >> /\ last' = << >>
  /\ UNCHANGED << currentSentence, recentText, sessionRefs, noise >>

\* C10 as stated: while the backend is not initialized every trigger call is
\* a silent no-op, and the text of a chunk given to addDelta on a started
\* session is still recorded in the text buffers.
C10_UninitializedKeepsText ==
  [][ backend # "ready" /\ lastCall' \in TriggerSteps =>
        /\ emitted' = << >> /\ notified' = << >> /\ last' = << >>
        /\ lastCall' = "addDelta" /\ isPlaying =>
             /\ Len(currentSentence') > Len(currentSentence)
             /\ Len(recentText') > Len(recentText) ]_vars

\* C10 amended: while the backend is not initialized addDelta and
\* startFlourish change nothing, and no step of a replay makes a sound or
\* processes a chunk; a chunk arriving then is dropped, its text recorded in
\* neither text buffer.
C10_UninitializedDropsText ==
  [][ backend # "ready" /\ lastCall' \in TriggerSteps =>
        /\ Dropped
        /\ lastCall' \in {"addDelta", "startFlourish"} =>
             UNCHANGED << timers, isPlaying, mixerControls, starting, replays >> ]_vars

\* a chunk given to addDelta on a started session before the instruments exist
C10_Witness ==
  /\ lastCall = "addDelta"
  /\ backend = "loaded"
  /\ isPlaying
  /\ currentSentence = << >> /\ recentText = << >>

----------------------------------------------------------------------------
(* C11, C12: reset and stopAudio *)

NoiseStopPending ==
  \E i \in 1..Len(timers) : timers[i].act.type = "noiseStop"

\* C11: reset leaves every session field at its initial value (text buffers
\* empty, timing and history lists empty, counters initial, phase idle), the
\* session disarmed and the noise stopped, and leaves the mixer unchanged.
C11_ResetClearsSession ==
  [][ lastCall' = "reset" =>
        /\ currentSentence' = << >> /\ recentText' = << >>
        /\ sessionRefs' = [ lastDeltaTime |-> 0, deltaTimings |-> << >>,
                            tokenVelocity |-> 1, burstCounter |-> 0,
                            currentPhase |-> "idle", phaseIntensity |-> 0,
                            sentenceLengths |-> << >>, repetitionCount |-> 0,
                            pitchDrift |-> 0, psychStateHistory |-> << >>,
                            scheduledNotes |-> << >> ]
        /\ ~isPlaying'
        /\ noise'.state = "stopped"
        /\ mixerControls' = mixerControls ]_vars

\* reset right after a chunk that started the noise: the buffers are empty
\* again, the noise is stopped, its stop timer still pending
C11_Witness ==
  /\ lastCall = "reset"
  /\ NoiseStopPending
  /\ noise.filterFreq = 900 /\ noise.state = "stopped"
  /\ currentSentence = << >> /\ recentText = << >>
  /\ ~isPlaying

\* C12: stopAudio changes only the armed flag (to false) and the noise source
\* (stopped if running); text buffers, the other session fields and the mixer
\* settings are what they were before the call.
C12_StopKeepsSession ==
  [][ lastCall' = "stopAudio" =>
        /\ ~isPlaying'
        /\ noise' = [noise EXCEPT !.state = "stopped"]
        /\ UNCHANGED << currentSentence, recentText, sessionRefs, mixerControls,
                        timers, starting, replays, backend >> ]_vars

\* stopAudio right after a chunk that started the noise: the text is kept
C12_Witness ==
  /\ lastCall = "stopAudio"
  /\ NoiseStopPending
  /\ noise.filterFreq = 900 /\ noise.state = "stopped"
  /\ currentSentence # << >> /\ recentText # << >>
  /\ ~isPlaying

----------------------------------------------------------------------------
(* C13: the copy of the chunk pipeline in replay *)

DirectActs(sched) == ActsOf(SelectSeq(sched, IsDirect))

\* C13: under the same mixer map, a chunk processed by the replay loop gets
\* the decisions addDelta makes for it on an armed session: the same flags,
\* intensity, base pitch and the same ordered layer triggers.
C13_ReplayAgreesWithAddDelta ==
  Processed /\ lastCall = "replayChunk" =>
    \E d \in {addDeltaDecide(last[1].text, mixerControls)} :
      /\ last[1].patterns = d.patterns
      /\ last[1].intensity = d.intensity
      /\ last[1].midi = d.midi
      /\ last[1].gains = d.gains
      /\ last[1].sched = d.sched
      /\ emitted = DirectActs(d.sched)

\* a replayed chunk with a metacognitive phrase and emphasis, some layers firing
C13_Witness ==
  /\ Processed /\ lastCall = "replayChunk"
  /\ last[1].meta /\ last[1].patterns.hasEmphasis
  /\ last[1].intensity = 85
  /\ Len(last[1].sched) > 1

----------------------------------------------------------------------------
(* C15: the flourish *)

\* the sound events a timer will produce: layer, pitch in hundredths of a
\* semitone, time in ms from now, velocity in percent
EventsOfTimer(t) ==
  IF t.act.type = "chord"
  THEN { << t.act.notes[k].layer,
            t.act.notes[k].pitch.midi + 100 * t.act.notes[k].pitch.semis,
            t.delay, t.act.notes[k].vol.gain >> : k \in 1..Len(t.act.notes) }
  ELSE IF t.act.type = "note"
  THEN { << t.act.layer, t.act.pitch.midi + 100 * t.act.pitch.semis,
            t.delay, t.act.vol.gain >> }
  ELSE {}

EventsOfTimers(ts) == UNION { EventsOfTimer(ts[i]) : i \in 1..Len(ts) }

\* C4 = 60, E4 = 64, G4 = 67, and the octave above
TheFlourish ==
  { << "mid", 6000, 0, 50 >>, << "mid", 6400, 100, 50 >>, << "mid", 6700, 200, 50 >>,
    << "high", 7200, 0, 30 >>, << "high", 7600, 100, 30 >>, << "high", 7900, 200, 30 >>,
    << "bass", 6000, 0, 40 >> }

\* the timers the step has appended to those that were there (kept: the
\* timers of the state before that are still pending after the step)
AppendsFlourish(kept) ==
  /\ Len(timers') = Len(kept) + 4
  /\ SubSeq(timers', 1, Len(kept)) = kept
  /\ EventsOfTimers(SubSeq(timers', Len(kept) + 1, Len(timers'))) = TheFlourish
  /\ \A i \in (Len(kept) + 1)..Len(timers') : timers'[i].act.type \in {"chord", "note"}

\* C15: every startFlourish call made while the backend is ready schedules
\* the same 7 events (C4, E4, G4 on mid at 0, 100, 200 ms, the octave above
\* on high at the same times, C4 on bass at 0 ms), whether or not the session
\* is armed and whatever the mixer settings and the calls before; n calls
\* give n overlapping flourishes.
C15_FlourishUnguarded ==
  [][ lastCall' = "startFlourish" /\ backend = "ready" =>
        /\ AppendsFlourish(timers)
        /\ UNCHANGED << isPlaying, mixerControls, noise, currentSentence, recentText >> ]_vars

\* a second flourish on top of the first, on a session that is not armed and
\* whose mixer has an axis soloed
C15_Witness ==
  /\ lastCall = "startFlourish"
  /\ backend = "ready"
  /\ ~isPlaying
  /\ mixerControls # DefaultMixer
  /\ Len(timers) = 8
  /\ EventsOfTimers(SubSeq(timers, 1, 4)) = TheFlourish
  /\ EventsOfTimers(SubSeq(timers, 5, 8)) = TheFlourish

----------------------------------------------------------------------------
(* C14: the replay loop *)

ReplayTimers(ts) ==
  SelectSeq(ts, LAMBDA t : t.act.type \in {"replayChunk", "flourish"})

\* the one timer a replay of chunks at speed has pending once `done` of its
\* chunks are processed
AwaitsNext(t, chunks, speed, done) ==
  /\ t.act.chunks = chunks /\ t.act.speed = speed
  /\ IF done < Len(chunks)
     THEN t.act.type = "replayChunk" /\ t.act.i = done + 1 /\ t.delay = 100 \div speed
     ELSE t.act.type = "flourish" /\ t.delay = 2 * (100 \div speed)

ReplayStarts ==
  lastCall' = "replayResume" =>
    /\ Len(ReplayTimers(timers')) = 1
    /\ AwaitsNext(ReplayTimers(timers')[1], Head(replays).chunks, Head(replays).speed, 0)

ReplayProcessesNextChunk ==
  lastCall' = "replayChunk" =>
    \E fired \in {timers[FirstDue].act} :
      /\ last' # << >> /\ last'[1].text = fired.chunks[fired.i]
      /\ currentSentence' = currentSentence \o fired.chunks[fired.i]
      /\ Len(ReplayTimers(timers')) = 1
      /\ AwaitsNext(ReplayTimers(timers')[1], fired.chunks, fired.speed, fired.i)

ReplayEndsWithFlourish ==
  lastCall' = "flourish" =>
    /\ ReplayTimers(timers') = << >>
    /\ AppendsFlourish(Remaining)
    /\ last' = << >>

\* C14: replay(chunks, speed) processes every chunk of the list once, in list
\* order, one chunk every 100/speed ms, then issues one flourish 2 x 100/speed
\* ms after the last chunk; with an empty list it issues only the flourish.
C14_ReplayInOrder ==
  /\ [][ReplayStarts /\ ReplayProcessesNextChunk /\ ReplayEndsWithFlourish]_vars
  /\ [](Len(ReplayTimers(timers)) + Len(replays) <= 1)
  /\ (replays # << >> ~> lastCall = "flourish")

\* the third chunk of a three-chunk list has just been processed, after the
\* session was reset during the replay; the flourish is due in 2 x 50 ms
C14_Witness ==
  /\ lastCall = "replayChunk"
  /\ Processed /\ last[1].text = << "first" >>
  /\ currentSentence = << "maybe", "first" >>
  /\ Len(ReplayTimers(timers)) = 1
  /\ ReplayTimers(timers)[1].act.type = "flourish"
  /\ ReplayTimers(timers)[1].delay = 100
  /\ Len(ReplayTimers(timers)[1].act.chunks) = 3

----------------------------------------------------------------------------
(* C17, C18: what a chunk's decisions depend on *)

\* the gain formula, applied to a mixer map
GainOf(c, a) ==
  IF SomeSolo(c) /\ ~c[a].solo THEN 0
  ELSE IF c[a].muted THEN 0
  ELSE c[a].volume

SchedOf(L) ==
  SelectSeq(last[1].sched, LAMBDA it : it.act.layer = L /\ it.act.type # "noiseStop")

\* C17: the gains used for a processed chunk are derived from the mixer map
\* current at that moment, whatever updateMixerControls calls and chunks came
\* before: every gated call the chunk makes carries the gain the current map
\* gives its governing axis, and a layer whose axis the current map silences
\* makes no call.
C17_GainsFromCurrentMixer ==
  Processed =>
    /\ \A a \in Axes : G[a] = GainOf(mixerControls, a)
    /\ \A L \in Layers :
         Triggered(L, P) /\ GoverningAxis(L, P) # "none" =>
           \E g \in {GainOf(mixerControls, GoverningAxis(L, P))} :
             /\ g = 0 <=> SchedOf(L) = << >>
             /\ \A i \in 1..Len(SchedOf(L)) : SchedOf(L)[i].act.vol.gain = g

\* "maybe" processed with certainty silenced by a solo, after an earlier
\* "maybe" that was processed while certainty was audible set the noise filter
C17_Witness ==
  /\ Processed
  /\ last[1].text = << "maybe" >>
  /\ mixerControls = SoloOnly("reasoning")
  /\ G["certainty"] = 0
  /\ last[1].sched = << Direct(Note("mid", last[1].midi, "1", 0, "8n", -640, 100)) >>
  /\ noise.filterFreq = 900

----------------------------------------------------------------------------
(* C19, C20: bounds of the intensity *)

\* C19: with the revision flag set the intensity is at least 0.90 whatever
\* the other ten flags: 0.90 without emphasis, 1.0 with emphasis.
C19_RevisionDominates ==
  Processed /\ P.hasRevision =>
    /\ last[1].intensity >= 90
    /\ last[1].intensity = (IF P.hasEmphasis THEN 100 ELSE 90)

\* revision together with certainty and emphasis
C19_Witness ==
  /\ Processed
  /\ SetFlags(P) = {"hasRevision", "hasCertainty", "hasEmphasis"}
  /\ last[1].ladder = 90
  /\ last[1].intensity = 100

IntensityInRange == last[1].intensity >= 50 /\ last[1].intensity <= 100

EmphasisAddsFifteen ==
  last[1].intensity =
    (IF P.hasEmphasis
     THEN (IF last[1].ladder + 15 > 100 THEN 100 ELSE last[1].ladder + 15)
     ELSE last[1].ladder)

QuestionWithEmphasis ==
  SetFlags(P) = {"hasQuestion", "hasEmphasis"} /\ ~last[1].meta => last[1].intensity = 75

\* C20 as stated: the intensity lies in [0.5, 1.0]; emphasis adds exactly 0.15
\* to the ladder value, capped at 1.0; the cap is reached only when revision
\* and emphasis are both set; question + emphasis gives 0.75.
C20_CapOnlyWithRevision ==
  Processed =>
    /\ IntensityInRange
    /\ EmphasisAddsFifteen
    /\ last[1].intensity = 100 => P.hasRevision /\ P.hasEmphasis
    /\ QuestionWithEmphasis

\* C20 amended: as above, except that the value 1.0 is reached exactly when
\* emphasis is set together with revision (0.90 + 0.15 cut to 1.0) or,
\* without revision, with resolution (0.85 + 0.15 = 1.0, not cut); the cap
\* cuts the sum only when revision and emphasis are both set.
C20_CapWithRevisionOrResolution ==
  Processed =>
    /\ IntensityInRange
    /\ EmphasisAddsFifteen
    /\ last[1].intensity = 100 <=>
         P.hasEmphasis /\ (P.hasRevision \/ P.hasResolution)
    /\ P.hasEmphasis /\ last[1].ladder + 15 > 100 <=> P.hasRevision /\ P.hasEmphasis
    /\ QuestionWithEmphasis

\* resolution with emphasis and no revision: 0.85 + 0.15 reaches 1.0
C20_Witness ==
  /\ Processed
  /\ SetFlags(P) = {"hasResolution", "hasEmphasis"}
  /\ last[1].ladder = 85
  /\ last[1].intensity = 100


----------------------------------------------------------------------------
(* C16: the order of the stream's events and of the page's calls *)

SentWithoutError ==
  /\ server.sent # << >>
  /\ \A i \in 1..Len(server.sent) : server.sent[i].type # "error"

\* start, delta*, end, answer
OrderedEvents(ev) ==
  /\ Len(ev) >= 3
  /\ ev[1].type = "start"
  /\ \A i \in 2..(Len(ev) - 2) : ev[i].type = "delta"
  /\ ev[Len(ev) - 1].type = "end"
  /\ ev[Len(ev)].type = "answer"

DeltasOf(ev) == SelectSeq(ev, LAMBDA e : e.type = "delta")

AddDeltaCalls(ev) ==
  [i \in 1..Len(DeltasOf(ev)) |-> [op |-> "addDelta", text |-> DeltasOf(ev)[i].text]]

\* the calls the events sent so far ask for: the flourish once end was sent
CallsFor(ev) ==
  AddDeltaCalls(ev) \o (IF \E i \in 1..Len(ev) : ev[i].type = "end"
                        THEN << [op |-> "startFlourish"] >> ELSE << >>)

IsPrefix(s, t) == Len(s) <= Len(t) /\ s = SubSeq(t, 1, Len(s))

\* C16: a stream the route closed without an error event is start, delta*,
\* end, answer; the page's calls on the audio handle are always a prefix of
\* one addDelta per delta event in emission order followed by startFlourish,
\* and when the read loop has ended on such a stream they are exactly that:
\* every delta once, in order, then startFlourish once after the last addDelta.
C16_StreamOrder ==
  /\ (server.route = "closed" /\ SentWithoutError) => OrderedEvents(server.sent)
  /\ IsPrefix(page.calls, CallsFor(server.sent))
  /\ (page.phase = "ended" /\ SentWithoutError) =>
        page.calls = AddDeltaCalls(server.sent) \o << [op |-> "startFlourish"] >>

\* a run ended on an error-free stream of two different deltas
C16_Witness ==
  /\ page.phase = "ended"
  /\ SentWithoutError
  /\ Len(page.calls) = 3
  /\ page.calls[1].op = "addDelta" /\ page.calls[2].op = "addDelta"
  /\ page.calls[1].text # page.calls[2].text
  /\ page.calls[3].op = "startFlourish"


----------------------------------------------------------------------------
(* C21: the base MIDI note *)

Complexity(d) == CountAtom(d.text, ",") + CountAtom(d.text, "(")

\* the note of the chunk is 48 + 36 x intensity + 2 x complexity
MidiFormula ==
  Processed =>
    /\ last[1].midi = 4800 + 36 * last[1].intensity + 200 * Complexity(last[1])
    /\ last[1].midi >= 4800 + 36 * last[1].intensity

\* two chunks processed one after the other compare as the formula says
MidiMonotone ==
  (Processed /\ Processed') =>
    LET a == last[1]
        b == last'[1]
    IN  /\ (Complexity(a) = Complexity(b) /\ a.intensity < b.intensity) => a.midi < b.midi
        /\ (a.intensity = b.intensity /\ Complexity(a) <= Complexity(b)) => a.midi <= b.midi

\* C21: the base MIDI note of a processed chunk is 48 + 36 x intensity +
\* 2 x (commas + open parentheses); of two chunks processed in a row with the
\* same complexity the one of higher intensity has the strictly higher note,
\* with the same intensity the one of higher complexity has no lower note,
\* and the note is never below 48 + 36 x intensity.
C21_BaseMidi == [](MidiFormula) /\ [][MidiMonotone]_vars

\* an emphasised chunk with a comma and a parenthesis, after a first chunk
C21_Witness ==
  /\ Processed
  /\ nCalls = 3
  /\ last[1].patterns.hasEmphasis
  /\ CountAtom(last[1].text, ",") >= 1
  /\ CountAtom(last[1].text, "(") >= 1
  /\ last[1].midi = 4800 + 36 * 100 + 200 * 3


----------------------------------------------------------------------------
(* C22: a chunk with exactly enumeration and causation, default mixer *)

EnumerationAndCausation ==
  /\ Processed
  /\ mixerControls = DefaultMixer
  /\ SetFlags(P) = {"hasEnumeration", "hasCausation"}

\* bass fires, pad plays the consonant chord, mid plays the single plain note
BassPadAndPlainNote ==
  /\ BassNoteWithGain(100)
  /\ Semis(EmittedOf("pad")) = << 0, 4, 7 >>
  /\ PendingOf("mid") = << >>
  /\ Len(EmittedOf("mid")) = 1
  /\ EmittedOf("mid")[1].pitch = [midi |-> last[1].midi, ratio |-> "1", semis |-> 0]

\* C22 as stated: a chunk whose set flags are exactly enumeration and
\* causation has, under the default mixer, intensity 0.60, the bass note,
\* the consonant pad chord (0,4,7) and the single plain mid note.
C22_EnumerationCausationSixty ==
  EnumerationAndCausation => last[1].intensity = 60 /\ BassPadAndPlainNote

\* C22 amended: such a chunk has intensity 0.65, the enumeration rung, which
\* the ladder tests before causation (0.70 when the chunk also holds a
\* metacognitive phrase); the bass note, the consonant pad chord and the
\* single plain mid note are as stated.
C22_EnumerationCausationSixtyFive ==
  EnumerationAndCausation =>
    /\ last[1].intensity = (IF last[1].meta THEN 70 ELSE 65)
    /\ BassPadAndPlainNote

\* the documented example chunk, processed by addDelta
C22_Witness ==
  /\ EnumerationAndCausation
  /\ lastCall = "addDelta"
  /\ last[1].text = Scenario2
  /\ last[1].intensity = 65
  /\ last[1].midi = 4800 + 36 * 65 + 200 * 2
  /\ Len(EmittedOf("bass")) = 1
  /\ Len(EmittedOf("pad")) = 3


----------------------------------------------------------------------------
(* C23: empty and whitespace-only chunks *)

Blank(text) == \A i \in 1..Len(text) : text[i] \in {" ", "\n", "\t"}

\* the plain note of the mid layer at the base pitch of intensity 0.5
PlainNoteAtBase ==
  Note("mid", 4800 + 36 * 50, "1", 0, "8n", -1200 + 50 * 8, 100)

\* C23: an empty or whitespace-only chunk processed on an armed session has
\* all 11 flags false and intensity 0.5, and its only sound event is the
\* plain mid note at the base pitch, at full gain under every mixer map; no
\* layer timer is registered and the noise is not started.
C23_BlankChunk ==
  Processed /\ Blank(last[1].text) =>
    /\ SetFlags(P) = { }
    /\ last[1].intensity = 50
    /\ emitted = << PlainNoteAtBase >>
    /\ \A L \in Layers : PendingOf(L) = << >>
    /\ noise = InitNoise

\* a whitespace-only chunk given to addDelta with every axis muted
C23_Witness ==
  /\ Processed
  /\ lastCall = "addDelta"
  /\ last[1].text = << " ", "\n", "\t" >>
  /\ \A a \in Axes : mixerControls[a].muted
  /\ emitted = << PlainNoteAtBase >>

\* the empty chunk given to addDelta with one axis soloed
C23_WitnessEmpty ==
  /\ Processed
  /\ lastCall = "addDelta"
  /\ last[1].text = << >>
  /\ SomeSolo(mixerControls)
  /\ emitted = << PlainNoteAtBase >>


----------------------------------------------------------------------------
(* C24: the layers are decided independently *)

\* the rule of layer L alone: its trigger flags and the gain of its own axis
\* (the mid layer always has a branch; its plain note has no axis)
OwnRule(L, p, g) ==
  /\ L # "mid" => Triggered(L, p)
  /\ GoverningAxis(L, p) # "none" => g[GoverningAxis(L, p)] > 0

AllFive == {"hasCausation", "hasEmphasis", "hasNegation"}

\* C24: a layer sounds for a processed chunk exactly when its own rule says
\* so (its trigger flags, and the gain of the axis that governs it above 0),
\* whatever the other layers did; a chunk with causation, emphasis and
\* negation under the default mixer sounds all five layers, and a
\* certainty-only chunk with the certainty gain at 0 sounds none.
C24_LayersIndependent ==
  Processed =>
    /\ \A L \in Layers : ~Silent(L) <=> OwnRule(L, P, G)
    /\ (SetFlags(P) = AllFive /\ mixerControls = DefaultMixer) =>
         \A L \in Layers : ~Silent(L)
    /\ (SetFlags(P) = {"hasCertainty"} /\ G["certainty"] = 0) =>
         emitted = << >> /\ \A L \in Layers : Silent(L)

\* all five layers sound for causation + emphasis + negation, default mixer
C24_Witness ==
  /\ Processed
  /\ SetFlags(P) = AllFive
  /\ mixerControls = DefaultMixer
  /\ \A L \in Layers : ~Silent(L)

\* no layer sounds for a certainty-only chunk with the certainty axis muted
C24_WitnessNone ==
  /\ Processed
  /\ SetFlags(P) = {"hasCertainty"}
  /\ mixerControls["certainty"].muted
  /\ emitted = << >>
  /\ \A L \in Layers : Silent(L)


----------------------------------------------------------------------------
(* C25: the active-axes notification *)

AxesOf(p) ==
  [ a \in Axes |->
      CASE a = "certainty"  -> p.hasUncertainty \/ p.hasCertainty \/ p.hasHedging
        [] a = "reasoning"  -> p.hasCausation \/ p.hasEnumeration \/ p.hasComparison
        [] a = "revision"   -> p.hasRevision \/ p.hasNegation \/ p.hasQuestion
        [] a = "resolution" -> p.hasResolution \/ p.hasEmphasis ]

\* one notification per processed chunk, with the axes of its flags
NotifiedOnce ==
  Processed => notified = (IF hasObserver THEN << AxesOf(P) >> ELSE << >>)

\* the layers use the mixer as the observer's callback left it, so the
\* notification precedes the reading of the gains and the layers
NotifiedBeforeLayers ==
  Processed' =>
    /\ \A a \in Axes : last'[1].gains[a] = GainOf(mixerControls', a)
    /\ last'[1] = addDeltaDecide(last'[1].text, mixerControls')

\* setActiveAxes forwards its argument and touches nothing else
SetActiveAxesIsOutputOnly ==
  lastCall' = "setActiveAxes" /\ nCalls' = nCalls + 1 =>
    /\ notified' \in (IF hasObserver THEN { << axes >> : axes \in [Axes -> BOOLEAN] }
                      ELSE { << >> })
    /\ emitted' = << >>
    /\ UNCHANGED << backend, mixerControls, isPlaying, currentSentence, recentText,
                    sessionRefs, noise, timers, starting, replays >>

\* C25: when an observer is given, every processed chunk notifies it exactly
\* once with certainty = uncertainty or certainty or hedging, reasoning =
\* causation or enumeration or comparison, revision = revision or negation
\* or question, resolution = resolution or emphasis, whatever the mixer map
\* (without an observer nothing is notified); the call precedes the layers,
\* which use the mixer map as the callback left it; the decisions of the
\* chunk are the same with and without observer, and setActiveAxes changes
\* no state of the engine.
C25_AxesNotification ==
  [](NotifiedOnce) /\ [][NotifiedBeforeLayers /\ SetActiveAxesIsOutputOnly]_vars

\* a chunk with a question and an uncertainty marker processed under a
\* mixer map that solos reasoning: certainty and revision are reported
\* active although both gains are 0 and the texture layer is silent
C25_Witness ==
  /\ Processed
  /\ hasObserver
  /\ SetFlags(P) = {"hasQuestion", "hasUncertainty"}
  /\ mixerControls = SoloOnly("reasoning")
  /\ notified = << [certainty |-> TRUE, reasoning |-> FALSE,
                    revision |-> TRUE, resolution |-> FALSE] >>
  /\ G["revision"] = 0
  /\ Silent("texture")


----------------------------------------------------------------------------
(* C26: the recent-text window *)

RECURSIVE Flat(_)
\* the characters of a text
Flat(text) == IF text = << >> THEN "" ELSE Head(text) \o Flat(Tail(text))

\* the last min(n, length) characters of a string
LastChars(s, n) == IF Len(s) <= n THEN s ELSE SubSeq(s, Len(s) - n + 1, Len(s))

\* currentSentence is the concatenation of the chunks accepted since the
\* last reset: an accepted chunk is appended to it, reset empties it and no
\* other step touches it
SentenceIsConcatenation ==
  /\ Processed' => currentSentence' = currentSentence \o last'[1].text
  /\ ~Processed' =>
       \/ currentSentence' = currentSentence
       \/ lastCall' = "reset" /\ currentSentence' = << >>

\* C26: the recent-text buffer always holds the last min(200, n) characters
\* of the concatenation, in arrival order, of the chunks accepted by addDelta
\* and by replay since the last reset, and never more than 200 characters.
C26_RecentWindow ==
  /\ [](/\ Len(Flat(recentText)) <= 200
        /\ Flat(recentText) = LastChars(Flat(currentSentence), 200))
  /\ [][SentenceIsConcatenation]_vars

\* 284 characters accepted in three chunks: the window starts inside a
\* word of an earlier chunk
C26_Witness ==
  /\ Processed
  /\ lastCall = "addDelta"
  /\ Len(Flat(currentSentence)) = 140 + 72 + 72
  /\ Len(Flat(recentText)) = 200
  /\ Len(recentText[1]) < Len(LongWord)


----------------------------------------------------------------------------
(* C27: the size of the session state *)

SessionLists27 ==
  << sessionRefs.deltaTimings, sessionRefs.sentenceLengths,
     sessionRefs.psychStateHistory, sessionRefs.scheduledNotes >>

\* C27 as stated: every retained field of the session state (accumulated
\* sentence text, recent text, timing list, history lists) stays within a
\* constant size whatever the number and length of the accepted chunks; the
\* constant is the one the engine has, the 200 characters of its text window.
C27_SessionBounded ==
  /\ CharLen(currentSentence) <= recentTextLimit
  /\ CharLen(recentText) <= recentTextLimit
  /\ \A i \in 1..Len(SessionLists27) : Len(SessionLists27[i]) <= recentTextLimit

\* three accepted chunks: 284 characters of sentence text are retained while
\* the recent text is cut to 200 and the lists are empty
C27_Witness ==
  /\ Processed
  /\ CharLen(currentSentence) = 284
  /\ CharLen(recentText) = recentTextLimit
  /\ \A i \in 1..Len(SessionLists27) : SessionLists27[i] = << >>


----------------------------------------------------------------------------
(* The canvas visualizer (ThoughtCanvas): the temporal analysis of addDelta *)
(* and the temporal tracking that reset clears.  Particles, phase and the  *)
(* drawing are left out: none of them is read by the timing history.       *)

timingLimit == 20       \* deltaTimingsRef.current.length > 20

MaxCanvasCalls == 23    \* addDelta calls on the canvas in one behaviour
MaxSameTime == 2        \* addDelta calls that read the same clock value as the call before
MaxCanvasResets == 1    \* reset calls on the canvas in one behaviour

\* push without eviction once the list is full
pushTimingKeepOldest(timings, t) ==
  IF Len(timings) >= timingLimit THEN timings ELSE Append(timings, t)

\* deltaTimingsRef.current.push(t); if (length > 20) shift()
pushTiming(timings, t) ==
  LET pushed == Append(timings, t)
  IN  IF Len(pushed) > timingLimit THEN Tail(pushed) ELSE pushed

\* addDelta of the canvas, called when performance.now() returns now
canvasAddDelta(now) ==
  LET timeSinceLastDelta ==
        IF canvas.lastDeltaTime > 0 THEN now - canvas.lastDeltaTime ELSE 0
  IN  canvas' = [canvas EXCEPT
                   !.clock = now,
                   !.lastDeltaTime = now,
                   !.deltaTimings = IF timeSinceLastDelta > 0
                                      THEN pushTiming(@, timeSinceLastDelta)
                                      ELSE @,
                   !.arrivals = Append(@, now),
                   !.op = "addDelta",
                   !.calls = @ + 1,
                   !.sameTime = IF now = canvas.clock THEN @ + 1 ELSE @]

\* reset of the canvas
canvasReset ==
  canvas' = [canvas EXCEPT
               !.lastDeltaTime = 0,
               !.deltaTimings = << >>,
               !.arrivals = << >>,
               !.op = "reset",
               !.resets = @ + 1]

\* the time that passes before a call that does not share its clock value
\* with the call before: 1, 2 or 3 ms, in turn
Elapsed(clock) == 1 + ((clock \div 2) % 3)

CanvasInit == Init /\ ~hasObserver

\* deltas arrive on the canvas, some of them within one clock tick of the
\* delta before, and the canvas is reset at any time
CanvasNext ==
  \/ /\ canvas.calls < MaxCanvasCalls
     /\ canvasAddDelta(canvas.clock + Elapsed(canvas.clock))
     /\ UNCHANGED << audio, stream >>
  \/ /\ canvas.calls < MaxCanvasCalls
     /\ canvas.sameTime < MaxSameTime
     /\ canvasAddDelta(canvas.clock)
     /\ UNCHANGED << audio, stream >>
  \/ /\ canvas.resets < MaxCanvasResets
     /\ canvasReset
     /\ UNCHANGED << audio, stream >>

SpecCanvas == CanvasInit /\ [][CanvasNext]_vars

\* the intervals between consecutive arrivals
Intervals(ts) == [i \in 1..(Len(ts) - 1) |-> ts[i + 1] - ts[i]]

\* the last n elements of s, all of s if it has fewer
LastOf(s, n) == IF Len(s) <= n THEN s ELSE SubSeq(s, Len(s) - n + 1, Len(s))

\* the elements of s above zero, in order
PositiveOf(s) == SelectSeq(s, LAMBDA x : x > 0)

\* C28, as stated: the timing history is the intervals between the most
\* recent deltas since the last reset, in arrival order, the 20 latest at
\* most, and it is empty right after reset.
C28_TimingHistory ==
  /\ canvas.deltaTimings = LastOf(Intervals(canvas.arrivals), timingLimit)
  /\ canvas.op = "reset" => canvas.deltaTimings = << >>

\* C28, amended: the timing history of the canvas is the intervals above
\* zero between consecutive deltas since the last reset, in arrival order,
\* the 20 latest at most: a delta that reads the same clock value as the
\* delta before it records nothing.  The history is empty right after reset,
\* and the first delta after a reset records nothing.
C28_PositiveTimingHistory ==
  /\ canvas.deltaTimings = LastOf(PositiveOf(Intervals(canvas.arrivals)), timingLimit)
  /\ Len(canvas.deltaTimings) <= timingLimit
  /\ canvas.op = "reset" => canvas.deltaTimings = << >> /\ canvas.lastDeltaTime = 0
  /\ Len(canvas.arrivals) = 1 => canvas.deltaTimings = << >>

\* a 21st interval above zero has evicted the oldest one, and one delta of
\* the run read the same clock value as the delta before it
C28_Witness ==
  /\ canvas.op = "addDelta"
  /\ Len(PositiveOf(Intervals(canvas.arrivals))) = timingLimit + 1
  /\ Len(canvas.deltaTimings) = timingLimit
  /\ canvas.deltaTimings = Tail(PositiveOf(Intervals(canvas.arrivals)))
  /\ \E i \in 1..(Len(canvas.arrivals) - 1) : canvas.arrivals[i + 1] = canvas.arrivals[i]

\* the history is empty right after a reset that followed recorded intervals
C28_WitnessReset ==
  /\ canvas.op = "reset"
  /\ canvas.calls >= 3
  /\ canvas.deltaTimings = << >>

\* the audio engine declares a timing history of its own and never records
\* into it: it is empty whatever the engine has processed
C28_AudioHistoryEmpty ==
  /\ sessionRefs.deltaTimings = << >>
  /\ sessionRefs.lastDeltaTime = 0


----------------------------------------------------------------------------
(* Disarming, and the startAudio and replay calls still awaiting the audio *)
(* context                                                                 *)

Disarming == {"stopAudio", "reset"}

\* C29, as stated: once stopAudio() or reset() has returned, no call issued
\* before it can arm the engine.  No call arms the engine in its own step, so
\* the step that follows the return of stopAudio() or reset() leaves the
\* engine disarmed.
C29_PendingStartCannotArm ==
  [][(lastCall \in Disarming) => ~isPlaying']_vars

\* C29, amended: stopAudio() and reset() leave the engine disarmed when they
\* return, addDelta on a disarmed engine makes no sound and does no
\* bookkeeping, and the engine is armed by nothing but the continuation of a
\* startAudio() or replay() call; that continuation arms the engine whenever
\* it runs, also when the call was issued before the stopAudio() or reset().
C29_PendingStartArms ==
  [][/\ lastCall' \in Disarming => ~isPlaying'
     /\ (~isPlaying /\ isPlaying') => lastCall' \in {"startAudioResume", "replayResume"}
     /\ lastCall' \in {"startAudioResume", "replayResume"} => isPlaying'
     /\ (lastCall' = "addDelta" /\ ~isPlaying) =>
          /\ emitted' = << >>
          /\ UNCHANGED << currentSentence, recentText, sessionRefs, noise, timers >>]_vars

\* stopAudio() has returned on an initialized engine while a startAudio()
\* issued before it is still awaiting the audio context
C29_Witness ==
  /\ lastCall = "stopAudio"
  /\ backend = "ready"
  /\ starting > 0
  /\ ~isPlaying

\* the awaited startAudio() has resumed and armed the engine; nothing was
\* called since the return of the two calls made
C29_WitnessArmed ==
  /\ lastCall = "startAudioResume"
  /\ nCalls = 2
  /\ starting = 0
  /\ isPlaying
  /\ noise.state = "stopped"


----------------------------------------------------------------------------
(* A replay on a session that was used and stopped, interrupted by         *)
(* stopAudio and reset                                                     *)

MaxInterruptCalls == 6   \* external calls in one behaviour of SpecInterrupt

InterruptLists ==
  { << << "maybe" >> >>,
    << << "first" >>, << "maybe" >> >> }

\* a live session of one chunk is stopped, which keeps its text; then one
\* replay, and calls made while it is in flight or after it
InterruptNext ==
  \/ LoadTone /\ UNCHANGED << stream, canvas >>
  \/ InitAudio /\ UNCHANGED << stream, canvas >>
  \/ nCalls = 0 /\ backend = "ready" /\ startAudio /\ UNCHANGED << stream, canvas >>
  \/ StartAudioResume /\ UNCHANGED << stream, canvas >>
  \/ nCalls = 1 /\ isPlaying
       /\ \E text \in SessionChunks : addDelta(text) /\ UNCHANGED << stream, canvas >>
  \/ nCalls = 2 /\ stopAudio /\ UNCHANGED << stream, canvas >>
  \/ nCalls = 3
       /\ \E chunks \in InterruptLists : replay(chunks, 1) /\ UNCHANGED << stream, canvas >>
  \/ ReplayResume /\ UNCHANGED << stream, canvas >>
  \/ FireTimer
  \/ nCalls > 3 /\ nCalls < MaxInterruptCalls
       /\ \E text \in SessionChunks : addDelta(text) /\ UNCHANGED << stream, canvas >>
  \/ nCalls > 3 /\ nCalls < MaxInterruptCalls /\ stopAudio /\ UNCHANGED << stream, canvas >>
  \/ nCalls > 3 /\ nCalls < MaxInterruptCalls /\ reset /\ UNCHANGED << stream, canvas >>

SpecInterrupt ==
  LayerInit /\ [][InterruptNext]_vars
    /\ WF_vars(ReplayResume /\ UNCHANGED << stream, canvas >>) /\ WF_vars(FireTimer)

\* the chunk the replay timer about to fire will process
DueChunk == timers[FirstDue].act.chunks[timers[FirstDue].act.i]

\* replay() is accepted whatever the session flag is, and arms the engine
\* after its await without touching the session state
ReplayArmsItself ==
  /\ lastCall' = "replay" =>
        /\ replays' = Append(replays, [chunks |-> replays'[Len(replays')].chunks, speed |-> 1])
        /\ UNCHANGED << isPlaying, currentSentence, recentText, sessionRefs >>
  /\ lastCall' = "replayResume" =>
        /\ isPlaying'
        /\ UNCHANGED << currentSentence, recentText, sessionRefs >>

\* stopAudio() and reset() cancel nothing of a replay in flight
StopLeavesReplay ==
  lastCall' \in Disarming =>
    /\ replays' = replays
    /\ ReplayTimers(timers') = ReplayTimers(timers)

\* every chunk of the replay is processed when its timer fires, armed or
\* not: its layers are triggered (the plain note at least, and the noise is
\* restarted when the chunk has a texture), its text is appended to both
\* buffers, and the next step of the replay is scheduled
ReplayChunkProcessed ==
  lastCall' = "replayChunk" =>
    /\ last' # << >>
    /\ last'[1].text = DueChunk
    /\ emitted' # << >>
    /\ NoiseOns(last'[1].sched) # << >> => noise'.state = "started"
    /\ currentSentence' = currentSentence \o DueChunk
    /\ recentText' = appendRecent(recentText, DueChunk)
    /\ Len(ReplayTimers(timers')) = 1
    /\ isPlaying' = isPlaying

\* the flourish timer schedules the chord and leaves the session flag alone
ReplayFlourishPlays ==
  lastCall' = "flourish" =>
    /\ \E k \in 0..Len(timers') :
         SubSeq(timers', k + 1, Len(timers')) = FlourishTimers
    /\ ReplayTimers(timers') = << >>
    /\ isPlaying' = isPlaying

\* the flag changes in a resume step (armed) or in stopAudio()/reset()
\* (disarmed), nowhere else; addDelta is accepted exactly when it is set
FlagRules ==
  /\ isPlaying' # isPlaying =>
        lastCall' \in Disarming \cup {"startAudioResume", "replayResume"}
  /\ lastCall' \in Disarming => ~isPlaying'
  /\ lastCall' = "addDelta" => (last' # << >> <=> isPlaying)

\* C30, as stated: replay is not gated by the session flag and arms the
\* engine without clearing the session; stopAudio() and reset() do not halt
\* a replay in flight, whose remaining chunks are processed and whose
\* flourish plays; when the replay ends (its flourish timer fires) the
\* engine is armed.
C30_ReplayLeavesArmed ==
  [][/\ ReplayArmsItself
     /\ StopLeavesReplay
     /\ ReplayChunkProcessed
     /\ ReplayFlourishPlays
     /\ lastCall' = "flourish" => isPlaying']_vars

\* C30, amended: replay is not gated by the session flag and arms the engine
\* without clearing the session; stopAudio() and reset() do not halt a
\* replay in flight, whose remaining chunks are processed and whose flourish
\* plays.  The replay sets the flag once, after its await, and never again:
\* when it ends the engine is armed only if no stopAudio() or reset() was
\* called since, and otherwise it is disarmed and later addDelta calls are
\* dropped until a start.
C30_ReplayIgnoresStop ==
  /\ [][/\ ReplayArmsItself
        /\ StopLeavesReplay
        /\ ReplayChunkProcessed
        /\ ReplayFlourishPlays
        /\ FlagRules]_vars
  /\ ((lastCall \in Disarming /\ ReplayTimers(timers) # << >>) ~> lastCall = "flourish")

\* the session was reset while the replay was in flight; the replay has
\* since ended, the text of a replayed chunk is in the buffers, and the
\* engine is disarmed
C30_Witness ==
  /\ lastCall = "flourish"
  /\ nCalls = 5
  /\ ~isPlaying
  /\ currentSentence = << "maybe" >>

\* the replay has armed the stopped session and kept its text
C30_WitnessArmed ==
  /\ lastCall = "replayResume"
  /\ isPlaying
  /\ currentSentence # << >>

\* an addDelta made after an uninterrupted replay was accepted
C30_WitnessAccepted ==
  /\ lastCall = "addDelta"
  /\ nCalls = 5
  /\ ReplayTimers(timers) = << >> /\ replays = << >>
  /\ last # << >>
  /\ Len(currentSentence) >= 3


----------------------------------------------------------------------------
(* Two runs of the page in a row: the timer that resets and starts the     *)
(* engine against the deltas of the stream                                 *)

MaxRunCalls == 3     \* handle calls made by the page before its last run starts

\* one or two thinking deltas, then the end of the message
RunScripts ==
  { << ThinkingDelta(t), MessageStop >> : t \in StreamTexts }
    \cup { << ThinkingDelta(<< "first" >>), ThinkingDelta(<< "maybe" >>), MessageStop >> }

\* a run starts when no run is streaming; the stream of the run before has
\* ended by then (the route closes it right after the answer event, and
\* isStreaming falls 3 s after that event was handled)
RunsNext ==
  \/ BetweenTasks /\ LoadTone /\ UNCHANGED << stream, canvas >>
  \/ BetweenTasks /\ InitAudio /\ UNCHANGED << stream, canvas >>
  \/ BetweenTasks /\ StartAudioResume /\ UNCHANGED << stream, canvas >>
  \/ BetweenTasks /\ FireTimer
  \/ /\ BetweenTasks /\ page.phase \in {"idle", "ended"} /\ nCalls < MaxRunCalls
     /\ \E script \in RunScripts : handleRun(script)
     /\ UNCHANGED canvas
  \/ server.route = "requested" /\ RoutePost /\ wire' # KeyErrorBody /\ UNCHANGED canvas
  \/ RouteChunk /\ UNCHANGED canvas
  \/ RouteClose /\ UNCHANGED canvas
  \/ FetchResolves /\ UNCHANGED canvas
  \/ ReadChunk /\ UNCHANGED canvas
  \/ ReadDone /\ UNCHANGED canvas
  \/ HandleLine /\ UNCHANGED canvas

SpecRuns == StreamInit /\ [][RunsNext]_vars

RECURSIVE RunText(_)
\* the texts of the addDelta calls of the current run, concatenated
RunText(calls) ==
  IF calls = << >> THEN << >>
  ELSE (IF Head(calls).op = "addDelta" THEN Head(calls).text ELSE << >>)
         \o RunText(Tail(calls))

IsSuffix(s, t) == Len(s) <= Len(t) /\ s = SubSeq(t, Len(t) - Len(s) + 1, Len(t))

\* the timer of handleRun has not fired yet
ArmPending == \E i \in 1..Len(timers) : timers[i].act.type = "armAudio"

\* C31, as stated: every delta of a run is processed (the engine was reset
\* and armed before it), in a session that holds this run's text only.
C31_ArmedBeforeFirstDelta ==
  [][lastCall' = "addDelta" =>
       /\ last' # << >>
       /\ currentSentence' = RunText(page'.calls)]_vars

\* C31, amended: reset() and then startAudio() are called by a timer 100 ms
\* after handleRun, whatever the stream does.  A delta is processed exactly
\* when the engine is armed and ready at that moment.  A delta handled after
\* the timer has fired and the engine is armed is processed in a session that
\* holds only the deltas of this run handled since the reset; a delta
\* handled before the timer has fired is dropped when the engine is not
\* armed, and otherwise it is appended to the session left by the run before.
C31_ArmedByTimer ==
  [][/\ lastCall' = "armAudio" =>
          /\ currentSentence' = << >> /\ recentText' = << >>
          /\ sessionRefs' = InitSessionRefs
          /\ ~isPlaying'
          /\ starting' = IF backend = "unloaded" THEN starting ELSE starting + 1
     /\ lastCall' = "addDelta" =>
          /\ last' # << >> <=> (isPlaying /\ backend = "ready")
          /\ (last' # << >> /\ ~ArmPending) =>
                IsSuffix(currentSentence', RunText(page'.calls))
          /\ (last' # << >> /\ ArmPending) =>
                currentSentence' = currentSentence \o page'.calls[Len(page'.calls)].text
          /\ last' = << >> => UNCHANGED << currentSentence, recentText, timers >>]_vars

\* the first delta of the second run was handled before the timer of that
\* run fired: it is appended to the text of the first run
C31_Witness ==
  /\ lastCall = "addDelta"
  /\ ArmPending
  /\ page.calls = << [op |-> "addDelta", text |-> << "first" >>] >>
  /\ currentSentence = << "maybe", "first" >>

\* the first delta of the first run was handled before the engine was armed
\* and is dropped
C31_WitnessDropped ==
  /\ lastCall = "addDelta"
  /\ ArmPending
  /\ backend = "ready"
  /\ ~isPlaying
  /\ last = << >>
  /\ Len(page.calls) = 1

\* the delta of a second run handled after reset() and startAudio() took
\* effect: the session holds this run's text only
C31_WitnessClean ==
  /\ lastCall = "addDelta"
  /\ ~ArmPending
  /\ nCalls >= 3
  /\ Len(page.calls) = 1
  /\ currentSentence = RunText(page.calls)
  /\ last # << >>


----------------------------------------------------------------------------
(* Deferred notes and the noise burst against later calls: chunks with a   *)
(* run of notes or a texture, mixer updates, stopAudio and reset made       *)
(* while the timers of earlier chunks are pending                          *)

MaxDeferredCalls == 4   \* external calls in one behaviour of SpecDeferred

\* revision (mid run at 30 ms, noise at 1200 Hz), emphasis (high burst at
\* 25 ms), uncertainty (pad, noise at 900 Hz), question (mid run at 40 ms),
\* certainty (mid run at 20 ms)
DeferredChunks == { << "but" >>, << "really" >>, << "maybe" >>, << "?" >>, << "Clearly" >> }

\* the chunks that follow the first one
LaterChunks == { << "but" >>, << "really" >>, << "maybe" >> }

MutedOnly(a) == [DefaultMixer EXCEPT ![a].muted = TRUE]

DeferredMixers == { MutedOnly("revision"), SoloOnly("reasoning") }

DeferredNext ==
  \/ LoadTone /\ UNCHANGED << stream, canvas >>
  \/ InitAudio /\ UNCHANGED << stream, canvas >>
  \/ nCalls = 0 /\ backend = "ready" /\ startAudio /\ UNCHANGED << stream, canvas >>
  \/ StartAudioResume /\ UNCHANGED << stream, canvas >>
  \/ FireTimer
  \/ nCalls = 1 /\ isPlaying
       /\ \E text \in DeferredChunks : addDelta(text) /\ UNCHANGED << stream, canvas >>
  \/ nCalls > 1 /\ nCalls < MaxDeferredCalls
       /\ \E text \in LaterChunks : addDelta(text) /\ UNCHANGED << stream, canvas >>
  \/ nCalls > 1 /\ nCalls < MaxDeferredCalls
       /\ \E controls \in DeferredMixers : updateMixerControls(controls)
       /\ UNCHANGED << stream, canvas >>
  \/ nCalls > 1 /\ nCalls < MaxDeferredCalls /\ stopAudio /\ UNCHANGED << stream, canvas >>
  \/ nCalls > 1 /\ nCalls < MaxDeferredCalls /\ reset /\ UNCHANGED << stream, canvas >>

SpecDeferred ==
  LayerInit /\ [][DeferredNext]_vars /\ WF_vars(FireTimer)


\* the timers a chunk registers when it is processed under the mixer map
\* controls
DeferredOf(d, controls) ==
  TimersOf(SelectSeq(layersWith(d.patterns, d.intensity, d.midi, axisGains(controls)),
                     IsDeferred))

\* C32: the gain of a deferred note is fixed when its chunk is processed.
\* A processed chunk registers its notes with the gains of the mixer map of
\* that moment; updateMixerControls leaves the pending timers, and the
\* running noise, as they are and makes no sound; a note timer that fires
\* plays exactly the note registered, whatever the mixer map is by then.
C32_DeferredGainFixed ==
  [][/\ (lastCall' = "addDelta" /\ last' # << >>) =>
          /\ last'[1].gains = axisGains(mixerControls)
          /\ timers' = timers \o DeferredOf(last'[1], mixerControls)
     /\ lastCall' = "updateMixerControls" =>
          /\ timers' = timers
          /\ noise' = noise
          /\ emitted' = << >>
     /\ lastCall' = "note" =>
          /\ emitted' = << timers[FirstDue].act >>
          /\ timers' = Remaining]_vars

\* a note of the revision run sounds at full gain after the revision axis
\* was muted
C32_Witness ==
  /\ lastCall = "note"
  /\ emitted # << >>
  /\ emitted[1].layer = "mid" /\ emitted[1].dur = "32n"
  /\ emitted[1].vol.gain = 100
  /\ getAxisGainMultiplier(mixerControls, "revision") = 0

\* a revision chunk processed after the revision axis was muted registers
\* no note, while notes of the chunk before the update are still pending
C32_WitnessAfter ==
  /\ lastCall = "addDelta"
  /\ last # << >>
  /\ last[1].text = << "but" >>
  /\ last[1].gains.revision = 0
  /\ DeferredOf(last[1], mixerControls) = << >>
  /\ \E i \in 1..Len(timers) :
       timers[i].act.type = "note" /\ timers[i].act.dur = "32n"


----------------------------------------------------------------------------
(* The noise burst of the texture layer *)

burstLength == 150     \* setTimeout(stop, 150)

StopTimers(ts) == SelectSeq(ts, LAMBDA t : t.act.type = "noiseStop")

\* the step processed a chunk whose texture layer fired
TextureTriggered ==
  /\ lastCall' \in {"addDelta", "replayChunk"}
  /\ last' # << >>
  /\ NoiseOns(last'[1].sched) # << >>

\* C33: a texture trigger on a running noise does not start the noise again
\* and cancels no timer: the stop timer of the earlier trigger stays first
\* in line, at most 150 ms away (150 ms less the time since that trigger),
\* and the new trigger adds its own stop timer at 150 ms; the cutoff and
\* the volume of the new trigger are set on the running noise at once.  A
\* stop timer that fires stops the noise, whichever trigger registered it.
C33_TextureOnRunningNoise ==
  [][/\ (TextureTriggered /\ noise.state = "started") =>
          /\ \A i \in 1..Len(emitted') : emitted'[i].type # "noiseOn"
          /\ noise' = [ state |-> "started",
                        filterFreq |-> NoiseOns(last'[1].sched)[1].act.filterFreq,
                        vol |-> NoiseOns(last'[1].sched)[1].act.vol ]
          /\ StopTimers(timers) # << >>
          /\ StopTimers(timers)[1].delay <= burstLength
          /\ StopTimers(timers') =
                StopTimers(timers)
                  \o << [delay |-> burstLength,
                         act |-> [type |-> "noiseStop", layer |-> "texture"]] >>
     /\ (TextureTriggered /\ noise.state = "stopped") =>
          \E i \in 1..Len(emitted') : emitted'[i].type = "noiseOn"
     /\ lastCall' = "noiseStop" => noise'.state = "stopped"]_vars

\* an uncertainty chunk was processed 120 ms after a revision chunk: the
\* noise was not started again, it has the cutoff of the new chunk, and the
\* stop timer of the revision chunk is due in 30 ms
C33_Witness ==
  /\ lastCall = "addDelta"
  /\ last # << >>
  /\ last[1].text = << "maybe" >>
  /\ \A i \in 1..Len(emitted) : emitted[i].type # "noiseOn"
  /\ noise.state = "started" /\ noise.filterFreq = 900
  /\ Len(StopTimers(timers)) = 2
  /\ StopTimers(timers)[1].delay = 30
  /\ StopTimers(timers)[2].delay = burstLength

\* the stop timer of the earlier trigger has stopped the noise while the
\* stop timer of the later trigger is still pending
C33_WitnessCutShort ==
  /\ lastCall = "noiseStop"
  /\ noise.state = "stopped"
  /\ Len(StopTimers(timers)) = 1
  /\ StopTimers(timers)[1].delay < burstLength


\* while the noise runs a stop timer is pending, due within 150 ms
NoiseHasStopTimer ==
  noise.state = "started" =>
    /\ StopTimers(timers) # << >>
    /\ \A i \in 1..Len(StopTimers(timers)) : StopTimers(timers)[i].delay <= burstLength

\* C34: the noise never runs on indefinitely.  In every state where it runs
\* a stop timer is pending and due within 150 ms, so it is stopped 150 ms
\* after the latest trigger at the latest; the noise is stopped when
\* stopAudio() or reset() returns; and a running noise is always stopped
\* in the end.
C34_NoiseAlwaysStops ==
  /\ [](NoiseHasStopTimer)
  /\ [][lastCall' \in Disarming => noise'.state = "stopped"]_vars
  /\ (noise.state = "started" ~> noise.state = "stopped")

\* stopAudio() or reset() has just stopped a noise that was running: the
\* stop timer of its trigger is still pending
C34_Witness ==
  /\ lastCall \in Disarming
  /\ noise.state = "stopped"
  /\ StopTimers(timers) # << >>
  /\ StopTimers(timers)[1].delay > 0

\* the noise runs on the stop timer of its latest trigger alone
C34_WitnessRunning ==
  /\ noise.state = "started"
  /\ Len(StopTimers(timers)) = 1
  /\ StopTimers(timers)[1].delay < burstLength


----------------------------------------------------------------------------
(* The timers of the multi-note sequences *)

NotesOn(ts, layer) ==
  SelectSeq(ts, LAMBDA t : t.act.type = "note" /\ t.act.layer = layer)

\* the timers ts are one sequence: note i (from 0) has the i-th offset and
\* is due i x spacing ms from now
IsRun(ts, offsets, spacing) ==
  /\ Len(ts) = Len(offsets)
  /\ \A i \in 1..Len(ts) :
       ts[i].delay = (i - 1) * spacing /\ ts[i].act.pitch.semis = offsets[i]

\* the sequences a processed chunk registers, by its flags and gains
RunsRegistered(d, new) ==
  /\ IF d.patterns.hasRevision
     THEN IF d.gains.revision > 0
          THEN IsRun(NotesOn(new, "mid"), << 0, -2, -4, -6, -8 >>, 30)
          ELSE NotesOn(new, "mid") = << >>
     ELSE IF d.patterns.hasQuestion
     THEN IF d.gains.revision > 0
          THEN IsRun(NotesOn(new, "mid"), << 0, 2, 4, 7, 9 >>, 40)
          ELSE NotesOn(new, "mid") = << >>
     ELSE IF d.patterns.hasCertainty
     THEN IF d.gains.certainty > 0
          THEN IsRun(NotesOn(new, "mid"), << 0, 4, 7 >>, 20)
          ELSE NotesOn(new, "mid") = << >>
     ELSE NotesOn(new, "mid") = << >>
  /\ IF d.patterns.hasEmphasis /\ d.gains.resolution > 0
     THEN IsRun(NotesOn(new, "high"), << 0, 5, 7, 12 >>, 25)
     ELSE NotesOn(new, "high") = << >>

\* C35: a processed chunk registers each note of its sequences as a timer
\* of its own, note i due i x spacing ms after the chunk (mid: revision 30,
\* question 40, certainty 20; high: emphasis 25), behind the timers already
\* pending; no call of the handle removes, reorders or delays a pending
\* timer; and the timer that fires is the earliest due, the first
\* registered among equals, while the others move closer by the time that
\* passed.  Hence the notes of a sequence fire in index order, and notes of
\* an earlier chunk fire among those of later chunks and after a stop or
\* reset.
C35_SequenceTimers ==
  [][/\ (lastCall' = "addDelta" /\ last' # << >>) =>
          /\ IsPrefix(timers, timers')
          /\ RunsRegistered(last'[1], SubSeq(timers', Len(timers) + 1, Len(timers')))
     /\ lastCall' \in {"addDelta", "stopAudio", "reset", "updateMixerControls"} =>
          IsPrefix(timers, timers')
     /\ lastCall' \in {"note", "noiseStop"} =>
          /\ \A j \in 1..Len(timers) : timers[j].delay >= timers[FirstDue].delay
          /\ \A j \in 1..(FirstDue - 1) : timers[j].delay > timers[FirstDue].delay
          /\ timers' = Remaining
     /\ lastCall' = "note" => emitted' = << timers[FirstDue].act >>]_vars

\* the last note of a revision run fires after the session was disarmed,
\* between the notes of the emphasis burst of a later chunk
C35_Witness ==
  /\ lastCall = "note"
  /\ emitted # << >>
  /\ emitted[1].layer = "mid" /\ emitted[1].pitch.semis = -8
  /\ ~isPlaying
  /\ nCalls = 4
  /\ Len(NotesOn(timers, "high")) \in 1..3


----------------------------------------------------------------------------
(* The governing axis is chosen by flag priority, not by audibility *)

\* the axis each flag that triggers layer L belongs to in that layer
FlagAxes(L) ==
  CASE L = "bass"    -> [hasCausation |-> "reasoning", hasEnumeration |-> "reasoning",
                         hasResolution |-> "resolution"]
    [] L = "mid"     -> [hasRevision |-> "revision", hasQuestion |-> "revision",
                         hasCertainty |-> "certainty"]
    [] L = "high"    -> [hasEmphasis |-> "resolution", hasComparison |-> "reasoning",
                         hasHedging |-> "certainty"]
    [] L = "pad"     -> [hasUncertainty |-> "certainty", hasResolution |-> "resolution",
                         hasCausation |-> "reasoning"]
    [] L = "texture" -> [hasUncertainty |-> "certainty", hasRevision |-> "revision",
                         hasNegation |-> "revision"]

\* the axes of the flags of p that trigger layer L
CandidateAxes(L, p) ==
  {FlagAxes(L)[f] : f \in {f \in DOMAIN FlagAxes(L) : p[f]}}

\* a flag of the chunk that triggers L belongs to an audible axis other than
\* the governing one
OtherAudible(L) ==
  \E a \in CandidateAxes(L, P) \ {GoverningAxis(L, P)} : G[a] > 0

\* C36: the governing axis of a layer is chosen by the priority of the set
\* flags alone.  When its gain is 0 the layer stays silent although another
\* flag of the chunk that triggers the layer belongs to an axis with positive
\* gain: revision and certainty flags with revision at 0 and certainty
\* audible give no mid event; uncertainty and revision flags with certainty
\* at 0 give no texture; causation and resolution flags with only resolution
\* soloed give no bass.  When its gain is positive the layer sounds although
\* every other candidate axis is at 0.
C36_PriorityNotAudibility ==
  Processed =>
    /\ \A L \in Layers :
         /\ Triggered(L, P) => GoverningAxis(L, P) \in CandidateAxes(L, P)
         /\ (Triggered(L, P) /\ G[GoverningAxis(L, P)] = 0 /\ OtherAudible(L))
              => Silent(L)
         /\ (Triggered(L, P) /\ G[GoverningAxis(L, P)] > 0) => ~Silent(L)
    /\ (P.hasRevision /\ P.hasCertainty /\ G.revision = 0 /\ G.certainty > 0)
         => Silent("mid")
    /\ (P.hasUncertainty /\ P.hasRevision /\ G.certainty = 0 /\ G.revision > 0)
         => Silent("texture") /\ noise = InitNoise
    /\ (P.hasCausation /\ P.hasResolution /\ G.reasoning = 0 /\ G.resolution > 0)
         => Silent("bass")

\* "but" with "Clearly": revision muted, certainty audible, no mid event
C36_Witness ==
  /\ Processed
  /\ P.hasRevision /\ P.hasCertainty
  /\ G.revision = 0 /\ G.certainty > 0
  /\ mixerControls.revision.muted /\ ~mixerControls.certainty.muted
  /\ Silent("mid")

\* uncertainty with revision: certainty muted, revision audible, no texture
C36_WitnessTexture ==
  /\ Processed
  /\ P.hasUncertainty /\ P.hasRevision
  /\ G.certainty = 0 /\ G.revision > 0
  /\ Silent("texture")

\* causation with resolution: only resolution soloed, no bass
C36_WitnessBass ==
  /\ Processed
  /\ P.hasCausation /\ P.hasResolution
  /\ mixerControls.resolution.solo
  /\ \A a \in Axes \ {"resolution"} : ~mixerControls[a].solo
  /\ G.reasoning = 0 /\ G.resolution > 0
  /\ Silent("bass")


----------------------------------------------------------------------------
(* startAudio() before the backend is loaded *)

StartCalls == {"startAudio", "armAudio"}

\* no start and no replay is in progress and the engine is not armed
Unarmed == ~isPlaying /\ starting = 0 /\ replays = << >>

\* C37: startAudio() called while the backend is not loaded returns without
\* arming and leaves no start pending; loading and initializing the backend
\* start nothing; the engine is armed only by the continuation of a
\* startAudio() or replay() call made on a loaded backend.  So from the
\* failed call on every delta is dropped, also once the backend is ready,
\* until startAudio() or replay() is called again.
C37_UnloadedStartNotRetried ==
  [][/\ (lastCall' \in StartCalls /\ backend = "unloaded") =>
          /\ starting' = starting
          /\ replays' = replays
          /\ isPlaying' => isPlaying
     /\ starting' > starting => lastCall' \in StartCalls /\ backend # "unloaded"
     /\ Len(replays') > Len(replays) => lastCall' = "replay" /\ backend # "unloaded"
     /\ (isPlaying' /\ ~isPlaying) =>
          \/ lastCall' = "startAudioResume" /\ starting > 0
          \/ lastCall' = "replayResume" /\ replays # << >>
     /\ (Unarmed /\ lastCall' \notin StartCalls \cup {"replay"}) => Unarmed'
     /\ (lastCall' = "addDelta" /\ ~isPlaying) =>
          /\ last' = << >> /\ emitted' = << >>
          /\ UNCHANGED << timers, currentSentence, recentText, sessionRefs, noise >>]_vars

\* the page's timer called startAudio() before the backend was loaded; the
\* backend is ready now and a delta of the run has just been dropped
C37_Witness ==
  /\ page.phase # "idle"
  /\ ~ArmPending
  /\ backend = "ready"
  /\ Unarmed
  /\ lastCall = "addDelta"
  /\ last = << >>
  /\ page.calls # << >>

\* the call itself: the timer has just fired on an unloaded backend
C37_WitnessCall ==
  /\ lastCall = "armAudio"
  /\ backend = "unloaded"
  /\ Unarmed


----------------------------------------------------------------------------
(* Leaving the streaming state *)

ShowAnswerPending == \E i \in 1..Len(timers) : timers[i].act.type = "showAnswer"

\* the read loop of the run has ended and no timer of the run will still
\* call setIsStreaming
RunOver == page.phase = "ended" /\ ~ShowAnswerPending

\* C38: every run leaves the streaming state, whatever the server answered
\* (a stream ending with answer, a stream ending with error, the 500 JSON
\* response): once the read loop has ended and the answer timer, if one was
\* registered, has fired, isStreaming is false, so that handleRun, which
\* starts no run while isStreaming is true, can start the next one.
C38_RunLeavesStreaming == RunOver => ~page.isStreaming


----------------------------------------------------------------------------
(* One text delivered in different chunkings *)

MaxPieces == 4         \* addDelta calls in one behaviour of SpecChunking

\* "reconsider", "can't" and "in the end" can be cut inside the marker,
\* "maybe" and "?" cannot
ChunkingTexts ==
  { << "should", " ", "recon", "sider", "." >>,
    << "can", "'", "t", " ", "maybe" >>,
    << "in", " ", "the", " ", "end", "?" >> }

\* the chunks a text can be cut into
Pieces ==
  UNION { { SubSeq(t, i, j) : i \in 1..Len(t), j \in 1..Len(t) } \ { << >> } :
          t \in ChunkingTexts }

\* the transport delivers one of the texts from its start, cut anywhere
ChunkingNext ==
  \/ LoadTone /\ UNCHANGED << stream, canvas >>
  \/ InitAudio /\ UNCHANGED << stream, canvas >>
  \/ nCalls = 0 /\ backend = "ready" /\ startAudio /\ UNCHANGED << stream, canvas >>
  \/ StartAudioResume /\ UNCHANGED << stream, canvas >>
  \/ FireTimer
  \/ /\ isPlaying /\ nCalls <= MaxPieces
     /\ \E text \in Pieces :
          /\ \E t \in ChunkingTexts : IsPrefix(currentSentence \o text, t)
          /\ addDelta(text)
     /\ UNCHANGED << stream, canvas >>

SpecChunking == LayerInit /\ [][ChunkingNext]_vars

\* the text accepted before the last chunk
Before == SubSeq(currentSentence, 1, Len(currentSentence) - Len(last[1].text))

\* a marker of flag f lies in the accumulated text across the cut before the
\* last chunk: neither the text before the cut nor the chunk holds one
SplitAcross(f) ==
  /\ detectPatterns(currentSentence)[f]
  /\ ~detectPatterns(Before)[f]
  /\ ~detectPatterns(last[1].text)[f]

\* C39: the flags of a chunk are the result of the marker tests on the text
\* of that chunk alone, never on the accumulated text.  A marker cut by a
\* chunk boundary ("recon" then "sider") sets its flag in neither chunk, and
\* the layers that flag triggers are not triggered: without another flag the
\* chunk plays the plain mid note and no texture, where the uncut marker
\* plays the revision run and the texture.
C39_DetectionPerChunk ==
  Processed =>
    /\ P = detectPatterns(last[1].text)
    /\ \A f \in Flags : SplitAcross(f) => ~P[f]
    /\ last[1].text \in { << "recon" >>, << "sider" >>, << "sider", "." >>,
                           << " ", "recon" >>, << "should", " ", "recon" >> } =>
         /\ SetFlags(P) = { }
         /\ Len(SchedOf("mid")) = 1
         /\ SchedOf("texture") = << >>
    /\ (\E i \in 1..(Len(last[1].text) - 1) :
           last[1].text[i] = "recon" /\ last[1].text[i + 1] = "sider") =>
         /\ P.hasRevision
         /\ Len(SchedOf("mid")) = 5
         /\ Len(SchedOf("texture")) = 1

\* "should recon" then "sider.": the accumulated text holds the marker, the
\* chunk does not, and no flag is set
C39_Witness ==
  /\ Processed
  /\ currentSentence = << "should", " ", "recon", "sider", "." >>
  /\ last[1].text = << "sider", "." >>
  /\ SplitAcross("hasRevision")
  /\ ~P.hasRevision
  /\ SchedOf("texture") = << >>

\* the same text in one chunk: the revision flag is set
C39_WitnessWhole ==
  /\ Processed
  /\ currentSentence = << "should", " ", "recon", "sider", "." >>
  /\ last[1].text = currentSentence
  /\ P.hasRevision
  /\ Len(SchedOf("texture")) = 1

\* the first half of the cut marker sets no flag either
C39_WitnessFirstHalf ==
  /\ Processed
  /\ last[1].text = << "should", " ", "recon" >>
  /\ SetFlags(P) = { }

\* "can" then "'t maybe": the negation is cut, the uncertainty is not
C39_WitnessNegation ==
  /\ Processed
  /\ last[1].text = << "'", "t", " ", "maybe" >>
  /\ SplitAcross("hasNegation")
  /\ SetFlags(P) = { "hasUncertainty" }


----------------------------------------------------------------------------
(* The read loop on any response text *)

\* a data line whose JSON text stops half way: JSON.parse throws
Truncated(e) == << [kind |-> "data"], [kind |-> "json", value |-> e, half |-> 1],
                   [kind |-> "nl"] >>

\* a line that does not start with "data: "
Comment(e) == JsonText(e) \o << [kind |-> "nl"] >>

\* response texts: a well-formed stream; a stream with a malformed line and
\* a line without prefix between its events; a stream cut inside its last
\* line
ResponseBodies ==
  { SSE(DeltaEvent(<< "first" >>)) \o SSE(EndEvent) \o SSE(AnswerEvent(NoResponse)),
    SSE(DeltaEvent(<< "maybe" >>)) \o Truncated(DeltaEvent(<< "first" >>))
      \o Comment(EndEvent) \o SSE(DeltaEvent(<< "first" >>)),
    SSE(DeltaEvent(<< "first" >>))
      \o << [kind |-> "data"] >> \o JsonText(DeltaEvent(<< "maybe" >>)) }

\* the server answers the fetch with one of the response texts, which the
\* transport then hands to the reader in any pieces
Respond ==
  /\ server.route = "requested"
  /\ \E body \in ResponseBodies :
       /\ wire' = body
       /\ server' = [route |-> "closed", upstream |-> << >>, fullAnswer |-> << >>,
                     sent |-> << >>, body |-> body]
  /\ Internal("respond") /\ Quiet
  /\ UNCHANGED << backend, hasObserver, mixerControls, isPlaying, currentSentence,
                  recentText, sessionRefs, noise, timers, starting, replays, page >>

ReadsNext ==
  \/ BetweenTasks /\ LoadTone /\ UNCHANGED << stream, canvas >>
  \/ BetweenTasks /\ InitAudio /\ UNCHANGED << stream, canvas >>
  \/ BetweenTasks /\ StartAudioResume /\ UNCHANGED << stream, canvas >>
  \/ BetweenTasks /\ FireTimer
  \/ BetweenTasks /\ page.phase = "idle" /\ handleRun(<< >>) /\ UNCHANGED canvas
  \/ Respond /\ UNCHANGED canvas
  \/ FetchResolves /\ UNCHANGED canvas
  \/ ReadChunk /\ UNCHANGED canvas
  \/ ReadDone /\ UNCHANGED canvas
  \/ HandleLine /\ UNCHANGED canvas

SpecReads == StreamInit /\ [][ReadsNext]_vars

\* the part of the response text the reads have returned so far
Consumed == SubSeq(server.body, 1, Len(server.body) - Len(wire))

\* the events of the well-formed data lines among lines, in order
RECURSIVE EventsOf(_)
EventsOf(lines) ==
  IF lines = << >> THEN << >>
  ELSE ParseLine(Head(lines)) \o EventsOf(Tail(lines))

RECURSIVE CallsOfEvents(_)
\* the calls on the audio handle the events ask for, one by one
CallsOfEvents(ev) ==
  IF ev = << >> THEN << >>
  ELSE (CASE Head(ev).type = "delta" -> << [op |-> "addDelta", text |-> Head(ev).text] >>
          [] Head(ev).type = "end" -> << [op |-> "startFlourish"] >>
          [] OTHER -> << >>)
       \o CallsOfEvents(Tail(ev))

\* the lines of a text that end with a newline, and those already handled
LinesOf(text) == SplitLines(text, << >>, << >>).lines
HandledLines ==
  SubSeq(LinesOf(Consumed), 1, Len(LinesOf(Consumed)) - Len(page.inbox))

HasAnswer(lines) ==
  \E i \in 1..Len(EventsOf(lines)) : EventsOf(lines)[i].type = "answer"

\* C40: what the page dispatches is a function of the concatenated response
\* text, whatever the reads: the lines still to handle and the buffer are the
\* split of the text read so far, the calls made are those of the well-formed
\* data lines handled, in order, each once and only when its newline has
\* been read; a data line whose JSON does not parse and a line without the
\* prefix are skipped and the lines after them are dispatched; when the
\* loop has ended the calls are those of all terminated lines of the text.
C40_DispatchIgnoresReads ==
  (server.route = "closed" /\ page.phase \in {"reading", "ended"}) =>
    /\ page.buffer = SplitLines(Consumed, << >>, << >>).rest
    /\ Len(page.inbox) <= Len(LinesOf(Consumed))
    /\ page.inbox = SubSeq(LinesOf(Consumed), Len(HandledLines) + 1, Len(LinesOf(Consumed)))
    /\ page.calls = CallsOfEvents(EventsOf(HandledLines))
    /\ HasAnswer(HandledLines) <=> (ShowAnswerPending \/ ~page.isStreaming)
    /\ page.phase = "ended" =>
         /\ wire = << >> /\ page.inbox = << >>
         /\ page.calls = CallsOfEvents(EventsOf(LinesOf(server.body)))

\* a read ended inside the JSON text of the data line after the malformed
\* one; the line was dispatched once its newline was read
C40_Witness ==
  /\ page.phase = "ended"
  /\ \E i \in 1..(Len(server.body) - 2) :
       server.body[i].kind = "data" /\ server.body[i + 2].kind = "nl"
  /\ page.calls = << [op |-> "addDelta", text |-> << "maybe" >>],
                     [op |-> "addDelta", text |-> << "first" >>] >>
  /\ lastCall = "readDone"

\* a read has ended between the two halves of a JSON text: nothing of that
\* line is dispatched yet
C40_WitnessSplit ==
  /\ page.phase = "reading"
  /\ page.inbox = << >>
  /\ Len(page.buffer) = 2
  /\ page.buffer[2].kind = "json" /\ page.buffer[2].half = 1
  /\ wire # << >>
  /\ page.calls = << [op |-> "addDelta", text |-> << "maybe" >>] >>

\* the text ended inside its last line: that line is never dispatched
C40_WitnessUnterminated ==
  /\ page.phase = "ended"
  /\ page.buffer # << >>
  /\ page.calls = << [op |-> "addDelta", text |-> << "first" >>] >>

====
